---- MODULE Spec2Model ----
(***************************************************************************)
(* FediResolve: resolution of a Fediverse input (URL, handle or bare       *)
(* domain) to an ActivityPub object or a NodeInfo document.                *)
(*                                                                         *)
(* Strings are sequences of tokens.  The characters the code inspects      *)
(* ('@', '/', ':', '?', '#') are tokens of their own; every other token    *)
(* stands for a run of letters ("https", "users", "a") or of digits        *)
(* ("1"), so that HasPrefix, Contains, Count, Split and url.Parse act on   *)
(* tokens exactly as the Go functions act on bytes.                        *)
(***************************************************************************)
EXTENDS Integers, Sequences, FiniteSets, TLC

(***************************************************************************)
(* Bounds of the model.                                                    *)
(***************************************************************************)
\* longest token string enumerated exhaustively by the classifier check
MaxLen == 4
\* deepest nesting of redirect-induced fetches explored (the code has no limit)
MaxDepth == 2
\* the Resolve calls made on one Resolver, and the signed requests they send
MaxResolutions == 2
MaxSigned == 3

(***************************************************************************)
(* package strings                                                         *)
(***************************************************************************)
Special == {"@", "/", ":", "?", "#"}
DigitTokens == {"1"}

HasPrefix(s, p) == Len(s) >= Len(p) /\ SubSeq(s, 1, Len(p)) = p

HasSuffix(s, p) == Len(s) >= Len(p) /\ SubSeq(s, Len(s) - Len(p) + 1, Len(s)) = p

Contains(s, c) == \E i \in 1..Len(s) : s[i] = c

Count(s, c) == Cardinality({i \in 1..Len(s) : s[i] = c})

\* strings.Index, 1-based; 0 when c does not occur
Index(s, c) ==
    IF Contains(s, c) THEN CHOOSE i \in 1..Len(s) : s[i] = c /\ \A j \in 1..(i-1) : s[j] # c
    ELSE 0

\* strings.LastIndex, 1-based; 0 when c does not occur
LastIndex(s, c) ==
    IF Contains(s, c) THEN CHOOSE i \in 1..Len(s) : s[i] = c /\ \A j \in (i+1)..Len(s) : s[j] # c
    ELSE 0

Before(s, c) == IF Contains(s, c) THEN SubSeq(s, 1, Index(s, c) - 1) ELSE s

After(s, c) == IF Contains(s, c) THEN SubSeq(s, Index(s, c) + 1, Len(s)) ELSE <<>>

RECURSIVE Split(_, _)
Split(s, c) ==
    IF Contains(s, c) THEN <<Before(s, c)>> \o Split(After(s, c), c)
    ELSE <<s>>

(***************************************************************************)
(* net/url: url.Parse, as far as the fields the resolver reads             *)
(***************************************************************************)
HTTPS == <<"https", ":", "/", "/">>
HTTP == <<"http", ":", "/", "/">>

ParseError == [err |-> TRUE, Scheme |-> <<>>, User |-> <<>>, hasUser |-> FALSE, Host |-> <<>>,
               Path |-> <<>>, RawQuery |-> <<>>, ForceQuery |-> FALSE, Fragment |-> <<>>,
               Opaque |-> <<>>]

\* getScheme: the length of the scheme (0: none), or -1 for "missing protocol scheme"
RECURSIVE SchemeLen(_, _)
SchemeLen(s, i) ==
    IF i > Len(s) THEN 0
    ELSE IF s[i] = ":" THEN (IF i = 1 THEN -1 ELSE i - 1)
    ELSE IF s[i] \in Special THEN 0
    ELSE IF s[i] \in DigitTokens THEN (IF i = 1 THEN 0 ELSE SchemeLen(s, i + 1))
    ELSE SchemeLen(s, i + 1)

\* validOptionalPort applied to the text from the last ':' of the host on
ValidHost(host) ==
    LET i == LastIndex(host, ":")
    IN i = 0 \/ \A j \in (i+1)..Len(host) : host[j] \in DigitTokens

\* parse, last step: the authority is split into userinfo and host
parseHost(scheme, authority, path, query, force, frag) ==
    IF ~ValidHost(SubSeq(authority, LastIndex(authority, "@") + 1, Len(authority)))
    THEN ParseError
    ELSE [err |-> FALSE, Scheme |-> scheme,
          User |-> SubSeq(authority, 1, LastIndex(authority, "@") - 1),
          hasUser |-> Contains(authority, "@"),
          Host |-> SubSeq(authority, LastIndex(authority, "@") + 1, Len(authority)),
          Path |-> path, RawQuery |-> query, ForceQuery |-> force, Fragment |-> frag,
          Opaque |-> <<>>]

\* parse, after the query is cut off: opaque, relative or with an authority
parseAuthority(scheme, rest, query, force, frag) ==
    IF ~HasPrefix(rest, <<"/">>) /\ scheme # <<>>
    THEN [err |-> FALSE, Scheme |-> scheme, User |-> <<>>, hasUser |-> FALSE, Host |-> <<>>,
          Path |-> <<>>, RawQuery |-> query, ForceQuery |-> force, Fragment |-> frag,
          Opaque |-> rest]
    ELSE IF ~HasPrefix(rest, <<"/">>) /\ Contains(Before(rest, "/"), ":") THEN ParseError
    ELSE IF (scheme # <<>> \/ ~HasPrefix(rest, <<"/", "/", "/">>))
            /\ HasPrefix(rest, <<"/", "/">>)
    THEN parseHost(scheme, Before(SubSeq(rest, 3, Len(rest)), "/"),
                   IF Contains(SubSeq(rest, 3, Len(rest)), "/")
                   THEN SubSeq(rest, 2 + Index(SubSeq(rest, 3, Len(rest)), "/"), Len(rest))
                   ELSE <<>>,
                   query, force, frag)
    ELSE [err |-> FALSE, Scheme |-> scheme, User |-> <<>>, hasUser |-> FALSE, Host |-> <<>>,
          Path |-> rest, RawQuery |-> query, ForceQuery |-> force, Fragment |-> frag,
          Opaque |-> <<>>]

\* parse, after the scheme: a lone trailing '?' forces an empty query
parseQuery(scheme, rest, frag) ==
    IF HasSuffix(rest, <<"?">>) /\ Count(rest, "?") = 1
    THEN parseAuthority(scheme, SubSeq(rest, 1, Len(rest) - 1), <<>>, TRUE, frag)
    ELSE parseAuthority(scheme, Before(rest, "?"), After(rest, "?"), FALSE, frag)

\* parse, after the fragment is cut off; n is the result of getScheme
parseScheme(u, n, frag) ==
    IF n = -1 THEN ParseError
    ELSE IF n > 0 THEN parseQuery(SubSeq(u, 1, n), SubSeq(u, n + 2, Len(u)), frag)
    ELSE parseQuery(<<>>, u, frag)

Parse(rawURL) == parseScheme(Before(rawURL, "#"), SchemeLen(Before(rawURL, "#"), 1),
                             After(rawURL, "#"))

\* URL.String for a URL without opaque part
URLString(p) ==
    (IF p.Scheme # <<>> THEN p.Scheme \o <<":">> ELSE <<>>)
    \o (IF p.Scheme # <<>> \/ p.Host # <<>> \/ p.hasUser
        THEN (IF p.Host # <<>> \/ p.Path # <<>> \/ p.hasUser THEN <<"/", "/">> ELSE <<>>)
             \o (IF p.hasUser THEN p.User \o <<"@">> ELSE <<>>) \o p.Host
        ELSE <<>>)
    \o p.Path
    \o (IF p.ForceQuery \/ p.RawQuery # <<>> THEN <<"?">> \o p.RawQuery ELSE <<>>)
    \o (IF p.Fragment # <<>> THEN <<"#">> \o p.Fragment ELSE <<>>)

(***************************************************************************)
(* Decoded JSON.  A field is absent, a string, a number or an object; a    *)
(* publicKey is absent, a map or an array (whose first element carries the *)
(* id), or some other value.                                               *)
(***************************************************************************)
Absent == [k |-> "absent", v |-> <<>>]
Str(v) == [k |-> "string", v |-> v]
Num == [k |-> "number", v |-> <<"1">>]
Inline == [k |-> "object", v |-> <<"{}">>]

PK(kind, id) == [k |-> kind, id |-> id]
NoPK == PK("absent", Absent)

Obj(type, id, object, attributedTo, publicKey) ==
    [type |-> type, id |-> id, object |-> object, attributedTo |-> attributedTo,
     publicKey |-> publicKey]

NoData == Obj("", Absent, Absent, Absent, NoPK)

\* gjson Result.String(): the text of a string or number, the raw JSON of an
\* object, "" for a missing value
GjsonString(f) == IF f.k = "absent" THEN <<>> ELSE f.v

(***************************************************************************)
(* Errors and results                                                      *)
(***************************************************************************)
NoCause == [kind |-> "", status |-> 0]
Err(kind, status) == [kind |-> kind, status |-> status, domain |-> <<>>, cause |-> NoCause]
NoErr == Err("", 0)
\* the "" returned beside an error; no rendering equals it, not even that of an
\* object without fields
NoResult == [json |-> NoData, summary |-> "no result"]

\* formatter.Format: the JSON of the data first, then the summary of
\* createSummary, headed by the value of the type field (a NodeInfo document
\* has none)
Format(d) == [json |-> d, summary |-> IF d.type = "nodeinfo" THEN "" ELSE d.type]

\* formatResult: Format never fails on a decoded map, so the raw text is unused
formatResult(raw, d) == Format(d)

(***************************************************************************)
(* Resolver.Resolve: the route taken for an input                          *)
(***************************************************************************)
HasScheme(input) == HasPrefix(input, HTTP) \/ HasPrefix(input, HTTPS)

inputNorm(input) ==
    IF ~HasScheme(input) /\ ~Contains(input, "@") THEN HTTPS \o input ELSE input

LooksLikeRootDomain(p) ==
    /\ ~p.err
    /\ p.Host # <<>>
    /\ (p.Path = <<>> \/ p.Path = <<"/">>)
    /\ p.RawQuery = <<>>
    /\ p.Fragment = <<>>

LooksLikeHandle(input) ==
    /\ Contains(input, "@")
    /\ ~Contains(input, "/")
    /\ ~Contains(input, ":")
    /\ IF HasPrefix(input, <<"@">>) THEN Count(input, "@") = 2 ELSE Count(input, "@") = 1

\* the order of the tests of an earlier revision: scheme first
Route_SchemeFirst(input) ==
    IF HasScheme(input) THEN "url"
    ELSE IF LooksLikeRootDomain(Parse(inputNorm(input))) THEN "nodeinfo"
    ELSE IF LooksLikeHandle(input) THEN "webfinger"
    ELSE "url"

\* a handle test that forgets the ':' exclusion
Route_ColonHandle(input) ==
    IF LooksLikeRootDomain(Parse(inputNorm(input))) THEN "nodeinfo"
    ELSE IF HasScheme(input) THEN "url"
    ELSE IF Contains(input, "@") /\ ~Contains(input, "/")
            /\ (IF HasPrefix(input, <<"@">>) THEN Count(input, "@") = 2
                ELSE Count(input, "@") = 1)
    THEN "webfinger"
    ELSE "url"

Route(input) ==
    IF LooksLikeRootDomain(Parse(inputNorm(input))) THEN "nodeinfo"
    ELSE IF HasScheme(input) THEN "url"
    ELSE IF LooksLikeHandle(input) THEN "webfinger"
    ELSE "url"

\* fetchNodeInfo: the discovery URL of a domain
NodeInfoURL(domain) == HTTPS \o domain \o <<"/", ".well-known", "/", "nodeinfo">>

\* resolveHandle: strip one leading '@', split on '@'
HandleParts(handle) ==
    Split(IF handle[1] = "@" THEN SubSeq(handle, 2, Len(handle)) ELSE handle, "@")

\* url.QueryEscape("acct:user@domain") keeps letters and digits and escapes
\* ':' and '@'
WebFingerURL(username, domain) ==
    HTTPS \o domain \o <<"/", ".well-known", "/", "webfinger", "?", "resource=acct">>
    \o <<"%3A">> \o username \o <<"%40">> \o domain

(***************************************************************************)
(* resolveHandle: the actor URL chosen from a WebFinger document           *)
(***************************************************************************)
ActivityJSONTypes == {"application/activity+json"}
ProfilePage == "http://webfinger.net/rel/profile-page"

\* href of the first of the links at the indices matching, "" when there is
\* none (a loop that breaks at its first match)
FirstHref(links, matching) ==
    IF matching = {} THEN <<>>
    ELSE links[CHOOSE i \in matching : \A j \in matching : i <= j].href

\* x, or y when x is "" (the `if actorURL == ""` between the loops)
OrElse(x, y) == IF x = <<>> THEN y ELSE x

SelectActorURL(links) ==
    OrElse(OrElse(FirstHref(links, {i \in 1..Len(links) :
                                      /\ links[i].rel = "self"
                                      /\ links[i].type \in ActivityJSONTypes}),
                  FirstHref(links, {i \in 1..Len(links) : links[i].rel = "self"})),
           FirstHref(links, {i \in 1..Len(links) : links[i].rel = ProfilePage}))

(***************************************************************************)
(* fetchNodeInfo: the versioned document chosen from the discovery links   *)
(***************************************************************************)
Schema21 == <<"ns", "/", "schema", "/", "2.1">>
Schema20 == <<"ns", "/", "schema", "/", "2.0">>

SelectNodeInfoHref(links) ==
    OrElse(FirstHref(links, {i \in 1..Len(links) :
                               HasSuffix(links[i].rel, <<"/", "schema", "/", "2.1">>)}),
           FirstHref(links, {i \in 1..Len(links) :
                               HasSuffix(links[i].rel, <<"/", "schema", "/", "2.0">>)}))

(***************************************************************************)
(* resolveURL: cross-instance URLs and the URL formats tried for them      *)
(***************************************************************************)
NotCrossInstance == [is |-> FALSE, username |-> <<>>, originalDomain |-> <<>>, postID |-> <<>>]

\* a first part with any number of '@' after the leading one
crossParts_AnyAt(username, parts, userParts) ==
    IF HasPrefix(username, <<"@">>) /\ Contains(SubSeq(username, 2, Len(username)), "@")
       /\ Len(parts) >= 2
    THEN [is |-> TRUE, username |-> userParts[1], originalDomain |-> userParts[2],
          postID |-> parts[2]]
    ELSE NotCrossInstance

\* the path is split on '/', its first part without the leading '@' on '@'
crossParts(username, parts, userParts) ==
    IF HasPrefix(username, <<"@">>) /\ Contains(SubSeq(username, 2, Len(username)), "@")
       /\ Len(parts) >= 2 /\ Len(userParts) = 2
    THEN [is |-> TRUE, username |-> userParts[1], originalDomain |-> userParts[2],
          postID |-> parts[2]]
    ELSE NotCrossInstance

crossUser(username) ==
    crossParts(username, Split(username, "/"),
               Split(SubSeq(Before(username, "/"), 2, Len(Before(username, "/"))), "@"))

CrossInstance(parsedURL) ==
    crossUser(IF HasPrefix(parsedURL.Path, <<"/">>)
              THEN SubSeq(parsedURL.Path, 2, Len(parsedURL.Path))
              ELSE parsedURL.Path)

\* the formats in the order of the source; withUser: the format has three %s
urlFormats ==
    << [pre |-> <<"/", "@">>, withUser |-> TRUE, mid |-> <<"/">>],
       [pre |-> <<"/", "users", "/">>, withUser |-> TRUE, mid |-> <<"/", "statuses", "/">>],
       [pre |-> <<"/", "notice", "/">>, withUser |-> FALSE, mid |-> <<>>],
       [pre |-> <<"/", "notes", "/">>, withUser |-> FALSE, mid |-> <<>>],
       [pre |-> <<"/", "display", "/">>, withUser |-> FALSE, mid |-> <<>>],
       [pre |-> <<"/", "item", "/">>, withUser |-> FALSE, mid |-> <<>>] >>

\* the formats with the two Mastodon forms exchanged
TargetURL_Swapped(i, originalDomain, username, postID) ==
    LET j == IF i = 1 THEN 2 ELSE IF i = 2 THEN 1 ELSE i
        f == urlFormats[j]
    IN HTTPS \o originalDomain \o f.pre
       \o (IF f.withUser THEN username \o f.mid ELSE <<>>) \o postID

\* fmt.Sprintf of the i-th format
TargetURL(i, originalDomain, username, postID) ==
    LET f == urlFormats[i]
    IN HTTPS \o originalDomain \o f.pre
       \o (IF f.withUser THEN username \o f.mid ELSE <<>>) \o postID

\* an error that names the host of the URL given instead
AllFormatsFailed_ViewingHost(parsedURL, originalDomain, lastError) ==
    [kind |-> "CrossInstanceUnresolved", status |-> 0, domain |-> parsedURL.Host,
     cause |-> NoCause]

\* the error returned after the last format: it names the original instance only
AllFormatsFailed(parsedURL, originalDomain, lastError) ==
    [kind |-> "CrossInstanceUnresolved", status |-> 0, domain |-> originalDomain,
     cause |-> NoCause]

(***************************************************************************)
(* fetchActivityPubObjectDirect: the URL fetched after a redirect          *)
(***************************************************************************)
\* URL.ResolveReference for a reference that is absolute or starts with '/'
resolveParsed(b, r, ref) ==
    IF r.Scheme # <<>> THEN ref
    ELSE IF r.Host # <<>> THEN b.Scheme \o <<":">> \o ref
    ELSE b.Scheme \o <<":", "/", "/">>
         \o (IF b.hasUser THEN b.User \o <<"@">> ELSE <<>>) \o b.Host \o ref

ResolveReference(base, ref) == resolveParsed(Parse(base), Parse(ref), ref)

\* the Location header is passed on as received
RedirectTarget(objectURL, location) == location

(***************************************************************************)
(* fetchActivityPubObjectWithSignature: the keyId for the signed request   *)
(***************************************************************************)
KeyOK(keyID) == [k |-> "ok", keyID |-> keyID, err |-> NoErr]
KeyErr(e) == [k |-> "err", keyID |-> <<>>, err |-> e]
KeyPanic == [k |-> "panic", keyID |-> <<>>, err |-> NoErr]

UsesActor(d) == d.attributedTo.k = "string" /\ d.attributedTo.v # <<>>

\* the object's own publicKey.id; the unchecked .(string) panics on a non-string
KeyFromObject(d) ==
    IF d.publicKey.k # "map" THEN KeyErr(Err("NoSigningKey", 0))
    ELSE IF d.publicKey.id.k = "absent" THEN KeyErr(Err("NoSigningKey", 0))
    ELSE IF d.publicKey.id.k # "string" THEN KeyPanic
    ELSE KeyOK(d.publicKey.id.v)

\* extractPublicKey: gjson publicKey.id, then publicKey.0.id
keyOrError(keyID) == IF keyID = <<>> THEN KeyErr(Err("NoSigningKey", 0)) ELSE KeyOK(keyID)

extractPublicKey(actorData) ==
    keyOrError(OrElse(IF actorData.publicKey.k = "map"
                      THEN GjsonString(actorData.publicKey.id) ELSE <<>>,
                      IF actorData.publicKey.k = "array"
                      THEN GjsonString(actorData.publicKey.id) ELSE <<>>))

(***************************************************************************)
(* The environment: what the caller may type and what servers may answer   *)
(***************************************************************************)
\* longest list of links in a WebFinger or NodeInfo discovery document
MaxLinks == 2

UrlX == HTTPS \o <<"b", "/", "x">>
UrlActor == HTTPS \o <<"b", "/", "users", "/", "u">>
UrlNode == HTTPS \o <<"b", "/", "nodeinfo", "/", "2.1">>
RelativeRef == <<"/", "r">>
CrossInput == HTTPS \o <<"a", "/", "@", "u", "@", "b", "/", "1">>

RECURSIVE SeqsUpTo(_, _)
SeqsUpTo(S, n) ==
    IF n = 0 THEN {<<>>}
    ELSE LET shorter == SeqsUpTo(S, n - 1)
         IN shorter \cup {Append(q, x) : q \in {t \in shorter : Len(t) = n - 1}, x \in S}

ClassifyAlphabet == {"a", "1", "@", "/", ":", "?", "#"}

\* every non-empty string of at most MaxLen tokens, bare or behind a scheme
ClassifyInputs ==
    LET bodies == SeqsUpTo(ClassifyAlphabet, MaxLen) \ {<<>>}
    IN bodies \cup {HTTPS \o b : b \in bodies} \cup {HTTP \o b : b \in bodies}

Bodies ==
    { <<"b">>, <<"b", "/">>, <<"b", ":", "1">>, <<"b", "?">>, <<"b", "#">>,
      <<"u", "@", "b">>, <<"@", "u", "@", "b">>, <<"@", "u", "@", "b", "@", "a">>,
      <<"u", "@", "b", ":", "1">>, <<"u", "@", "b", "/", "x">>, <<"/", "/", "u", "@", "b">>,
      <<"b", "/", "x">>, <<"b", "/", "x", "?", "a">>, <<"b", ":", "a", "/", "x">>,
      <<"a", "/", "@", "u", "@", "b", "/", "1">>, <<"a", "/", "@", "u", "@", "b">>,
      <<"a", "/", "@", "u", "@", "b", "@", "a", "/", "1">>,
      <<"a", "/", "@", "u", "/", "1">>,
      <<"u", "@">>, <<"@", "@", "b">>,
      <<"a", "/", "x", "/", "@", "u", "@", "b">> }

Inputs == Bodies \cup {HTTPS \o b : b \in Bodies} \cup {HTTP \o b : b \in Bodies}

\* the Location headers a server may send: none, relative, absolute
Locations == {<<>>, RelativeRef, UrlX}

RedirectStatuses == {301, 302, 307, 308}
ErrorStatuses == {401, 404}

PublicKeys ==
    {NoPK, PK("other", Absent), PK("array", Str(<<"key">>)), PK("map", Absent),
     PK("map", Num), PK("map", Str(<<>>)), PK("map", Str(<<"key">>))}
AttributedTos == {Absent, Num, Str(<<>>), Str(UrlActor)}

\* a Note with every combination of attributedTo and publicKey, and objects
\* with a usable key of every type, id and object field
Objects(u) ==
    {Obj("Note", Absent, Absent, a, k) : a \in AttributedTos, k \in PublicKeys}
    \cup {Obj(t, i, o, Absent, PK("map", Str(<<"key">>))) :
            t \in {"Note", "Announce"},
            i \in {Absent, Str(<<>>), Str(UrlX), Str(u)},
            o \in {Absent, Inline, Str(UrlX)}}

NodeInfoDoc == Obj("nodeinfo", Absent, Absent, Absent, NoPK)

Empty == [k |-> "empty", v |-> NoData]
Garbage == [k |-> "garbage", v |-> NoData]
Json(d) == [k |-> "json", v |-> d]
\* the body "null": json.Unmarshal accepts it and leaves the map nil
Null == [k |-> "null", v |-> NoData]

TransportError == [net |-> "error", status |-> 0, location |-> <<>>, body |-> Empty]
\* the server accepts the connection and never answers
Silent == [net |-> "silent", status |-> 0, location |-> <<>>, body |-> Empty]

\* http.Client.Timeout in seconds; 0 is no timeout. The Resolver's client has
\* 30 seconds, the client fetchActivityPubObjectDirect builds for itself has
\* none
ClientTimeout == 30
NoTimeout == 0
TimeoutOf(kind) == IF kind \in {"", "direct"} THEN NoTimeout ELSE ClientTimeout

\* what client.Do returns for the answer r: a client with a timeout gives up
\* on a server that never answers
Timed(r, timeout) == IF r.net = "silent" /\ timeout > 0 THEN TransportError ELSE r
Response(status, location, body) ==
    [net |-> "ok", status |-> status, location |-> location, body |-> body]

\* http.Client.Do sends only to an http(s) URL with a host
Sendable(p) == ~p.err /\ p.Scheme \in {<<"http">>, <<"https">>} /\ p.Host # <<>>

CanSend(u) == Sendable(Parse(u))

\* answers to an object or actor GET; redirects are offered to the client that
\* does not follow them (redirects = TRUE)
Responses(u, redirects) ==
    IF ~CanSend(u) THEN {TransportError}
    ELSE {TransportError, Silent}
         \cup {Response(st, <<>>, Garbage) : st \in ErrorStatuses}
         \cup (IF redirects
               THEN {Response(st, l, Empty) : st \in RedirectStatuses, l \in Locations}
               ELSE {})
         \cup {Response(200, <<>>, b) :
                 b \in {Empty, Garbage, Null} \cup {Json(d) : d \in Objects(u)}}

WebFingerLinks ==
    [rel : {"self", ProfilePage, "other"}, type : {"application/activity+json", "text/html"},
     href : {<<>>, UrlX, UrlActor}]
WebFingerDocs == SeqsUpTo(WebFingerLinks, MaxLinks)

NodeInfoLinks == [rel : {Schema21, Schema20, <<"other">>}, href : {<<>>, UrlNode, UrlX}]
NodeInfoDiscoveryDocs == SeqsUpTo(NodeInfoLinks, MaxLinks)

NoDoc == <<[rel |-> "none", type |-> "", href |-> <<>>]>>

(***************************************************************************)
(* Request signing                                                         *)
(***************************************************************************)
\* the http.Request of the signed attempt and its headers; "" and <<>> are a
\* header that is not set
NoSignature == [keyId |-> <<>>, algorithm |-> "", headers |-> <<>>, key |-> 0]
NoHTTPRequest ==
    [method |-> "", url |-> <<>>, body |-> "", Accept |-> <<>>, UserAgent |-> "",
     Date |-> "", Host |-> <<>>, Digest |-> "", Signature |-> NoSignature]
NoKey == 0

\* an Accept header is the list of its media ranges
MediaRange(type, profile) == [type |-> type, profile |-> profile]
ActivityJSON == MediaRange("application/activity+json", "")
LDJSON == MediaRange("application/ld+json", "https://www.w3.org/ns/activitystreams")
PlainJSON == MediaRange("application/json", "")
AcceptActivity == <<ActivityJSON, LDJSON, PlainJSON>>
AcceptDirect == <<ActivityJSON, LDJSON>>
AcceptWebFinger == <<MediaRange("application/jrd+json", ""), PlainJSON>>

\* the Accept header of a request of each kind; client.Get sets none
AcceptOf(kind) ==
    CASE kind \in {"signed", "actor"} -> AcceptActivity
      [] kind = "direct" -> AcceptDirect
      [] kind = "webfinger" -> AcceptWebFinger
      [] OTHER -> <<>>
EmptyBodyDigest == "SHA-256=47DEQpj8HBSa+/TImW+5JCeuQeRkm5NMpJWZG3hSuFU="
SignedHeaders == <<"(request-target)", "host", "date", "digest">>

\* http.NewRequest("GET", objectURL, nil) and the three headers set on it
NewSignedRequest(objectURL, now) ==
    [method |-> "GET", url |-> objectURL, body |-> "nil", Accept |-> AcceptActivity,
     UserAgent |-> "FediResolve/1.0 (https://melroy.org)", Date |-> now, Host |-> <<>>,
     Digest |-> "", Signature |-> NoSignature]

\* crypto/rand.Reader after n keys were read from it: a value it has not given
\* before
RandReader(n) == n + 1

\* rsa.GenerateKey on the reader
generateRSAKey_FixedSource(n) == RandReader(0)
generateRSAKey(n) == RandReader(n)

\* the Host and Digest headers signRequest sets before it signs
withHost(req) ==
    IF req.Host = <<>> THEN [req EXCEPT !.Host = Parse(req.url).Host] ELSE req
withDigest(req) ==
    IF req.body = "nil" THEN [req EXCEPT !.Digest = EmptyBodyDigest] ELSE req

\* signer.SignRequest: every signed header must be there; the Signature header
\* names the key, the algorithm and the signed headers
SignRequest(req, id, key) ==
    IF req.Date = "" \/ req.Host = <<>> \/ req.Digest = ""
    THEN [ok |-> FALSE, req |-> req]
    ELSE [ok |-> TRUE,
          req |-> [req EXCEPT !.Signature = [keyId |-> id, algorithm |-> "rsa-sha256",
                                             headers |-> SignedHeaders, key |-> key]]]

signRequest_NoDigest(req, id, key) ==
    [ok |-> TRUE,
     req |-> [withHost(req) EXCEPT !.Signature =
                 [keyId |-> id, algorithm |-> "rsa-sha256",
                  headers |-> <<"(request-target)", "host", "date">>, key |-> key]]]
signRequest(req, id, key) == SignRequest(withDigest(withHost(req)), id, key)

\* the URLs and keyIds of the signed attempts, and the time of the Date header
SignURLs == {UrlX, UrlActor, UrlNode}
SignKeyIDs == {<<>>, <<"k">>, UrlActor \o <<"#", "k">>}
Now == "now"

(***************************************************************************)
(* State of one resolution                                                 *)
(***************************************************************************)
VARIABLES
    input,       \* the string given to Resolve
    pc,          \* where the resolution stands
    route,       \* the route Resolve took: "nodeinfo", "webfinger" or "url"
    target,      \* the URL of the next WebFinger, NodeInfo or object fetch
    stack,       \* the pending fetchActivityPubObjectWithSignature calls, outermost first
    actorURL,    \* the attributedTo URL whose actor document is fetched for the key
    keyID,       \* the keyId of the signed request
    fmtIdx,      \* index in urlFormats of the current attempt, 0 outside the loop
    lastErr,     \* the error of the fetch that failed last
    result,      \* the formatted result Resolve returns
    err,         \* the error Resolve returns
    webfinger,   \* the WebFinger document decoded by resolveHandle
    discovery,   \* the NodeInfo discovery document decoded by fetchNodeInfo
    fetchCalls,  \* history: the calls of fetchActivityPubObject and their outcome
    issued,      \* history: the kinds of request issued so far
    lastReq,     \* history: the request issued last
    lastResp,    \* history: the response to lastReq while the code handles it
    failedURL,   \* history: the URL of the request that failed last
    signPc,      \* signing: where the signed request of a resolution stands
    resolutions, \* signing: the number of Resolve calls begun
    reader,      \* signing: the number of keys read from crypto/rand.Reader
    privateKey,  \* signing: the key held by the running call
    unsignedReq, \* signing: the request handed to signRequest
    signedReq,   \* signing: the request as signRequest left it
    usedKeys,    \* signing history: the keys that have signed a request
    unwrapPc,    \* unwrapping: where the earlier fetchActivityPubObject stands
    unwrapURL,   \* unwrapping: the URL of the innermost call
    unwrapParsed, \* unwrapping: that URL as url.Parse returned it
    unwrapOut,   \* unwrapping: what the outermost call returned
    unwrapSeen,  \* unwrapping history: the URLs requested so far
    cmdPc,       \* command: where rootCmd.Run stands
    cmdArgs,     \* command: the arguments of the command line
    cmdStdin,    \* command: what standard input holds
    cmdInput,    \* command: the local variable input
    cmdOut,      \* command: what was printed, and the exit code
    renderPc,    \* rendering: where the fetch and its rendering stand
    renderRaw,   \* rendering: the body as received
    renderData,  \* rendering: the decoded body
    renderFailed, \* rendering: whether json.MarshalIndent returned an error
    renderOut,   \* rendering: what the resolver returns
    flight,      \* the requests in flight, and whether the resolver waits for one
    run,         \* which call of Resolve this is: 0 when calls are not counted
    trace,       \* the requests of this call and their answers, when counted
    first,       \* the trace and the outcome of the call before this one
    guessPc,     \* actor guessing: where extractActorURLFromObjectURL stands
    guessURL,    \* actor guessing: the object URL given
    guessUser,   \* actor guessing: the username and domain the candidates are built from
    guessIdx,    \* actor guessing: index in actorURLs of the next candidate
    guessLog,    \* actor guessing: the requests made so far, with whether they succeeded
    guessOut,    \* actor guessing: what the function returned
    redirPc,     \* redirect check: where checkForRedirect stands
    redirInput,  \* redirect check: inputURL
    redirURL,    \* redirect check: currentURL
    redirCount,  \* redirect check: the requests made so far
    redirOut     \* redirect check: what the function returned

\* the variables of a resolution
resolveVars == <<input, pc, route, target, stack, actorURL, keyID, fmtIdx, lastErr, result,
                 err, webfinger, discovery, fetchCalls, issued, lastReq, lastResp,
                 failedURL>>

\* the variables of request signing
signVars == <<signPc, resolutions, reader, privateKey, unsignedReq, signedReq, usedKeys>>

\* the variables of the unwrapping of shares
unwrapVars == <<unwrapPc, unwrapURL, unwrapParsed, unwrapOut, unwrapSeen>>

\* the variables of the command
cmdVars == <<cmdPc, cmdArgs, cmdStdin, cmdInput, cmdOut>>

\* the variables of the rendering
renderVars == <<renderPc, renderRaw, renderData, renderFailed, renderOut>>

\* the variables of the guessing of actor URLs
guessVars == <<guessPc, guessURL, guessUser, guessIdx, guessLog, guessOut>>

\* the variables of the redirect check
redirVars == <<redirPc, redirInput, redirURL, redirCount, redirOut>>

\* the variables of the other specifications
sideVars == <<unwrapVars, cmdVars, renderVars, guessVars, redirVars>>

\* the variables outside a resolution and its signed requests
laterVars == <<sideVars, flight, run, trace, first>>

\* the variables outside the unwrapping of shares, outside the command, and
\* outside the rendering
exceptUnwrap == <<resolveVars, signVars, cmdVars, renderVars, guessVars, redirVars,
                  flight, run, trace, first>>
exceptCmd == <<resolveVars, signVars, unwrapVars, renderVars, guessVars, redirVars,
               flight, run, trace, first>>
exceptRender == <<resolveVars, signVars, unwrapVars, cmdVars, guessVars, redirVars,
                  flight, run, trace, first>>
exceptGuess == <<resolveVars, signVars, unwrapVars, cmdVars, renderVars, redirVars,
                 flight, run, trace, first>>
exceptRedir == <<resolveVars, signVars, unwrapVars, cmdVars, renderVars, guessVars,
                 flight, run, trace, first>>

vars == <<input, pc, route, target, stack, actorURL, keyID, fmtIdx, lastErr, result,
          err, webfinger, discovery, fetchCalls, issued, lastReq, lastResp, failedURL,
          signPc, resolutions, reader, privateKey, unsignedReq, signedReq, usedKeys,
          unwrapPc, unwrapURL, unwrapParsed, unwrapOut, unwrapSeen,
          cmdPc, cmdArgs, cmdStdin, cmdInput, cmdOut,
          renderPc, renderRaw, renderData, renderFailed, renderOut, flight,
          run, trace, first,
          guessPc, guessURL, guessUser, guessIdx, guessLog, guessOut,
          redirPc, redirInput, redirURL, redirCount, redirOut>>

Frame(url, base, location) == [url |-> url, base |-> base, location |-> location]

\* the User-Agent header of a request of each kind: the requests built with
\* http.NewRequest set UserAgent, the NodeInfo requests go through client.Get,
\* which sets no header, and net/http sends its own default
UserAgent == "FediResolve/1.0 (https://melroy.org)"
GoUserAgent == "Go-http-client/1.1"
UserAgentOf(kind) ==
    IF kind = "" THEN ""
    ELSE IF kind \in {"nodeinfo-discovery", "nodeinfo-document"} THEN GoUserAgent
    ELSE UserAgent

Request(kind, url, base, location) ==
    [kind |-> kind, url |-> url, base |-> base, location |-> location,
     userAgent |-> UserAgentOf(kind), accept |-> AcceptOf(kind),
     timeout |-> TimeoutOf(kind)]
NoRequest == Request("", <<>>, <<>>, <<>>)

\* how the code classifies a response: "error" (no response), "redirect" (a
\* redirect status with a Location, for the client that does not follow
\* redirects), "status" (any other status than 200, kept in status), or the
\* kind of the body of a 200 response
Answer(class, status) == [class |-> class, status |-> status]
NoAnswer == Answer("", 0)
AnswerOf(r) ==
    IF r.net = "error" THEN Answer("error", 0)
    ELSE IF r.net = "silent" THEN Answer("silent", 0)
    ELSE IF r.status \in RedirectStatuses /\ r.location # <<>> THEN Answer("redirect", 0)
    ELSE IF r.status # 200 THEN Answer("status", r.status)
    ELSE Answer(r.body.k, 0)

\* the request got no response, or a status that is neither 200 nor a redirect
\* the code goes after
RequestFailed(a) == a.class \in {"error", "status"}

\* requests are not followed in flight, or they are: none is in flight
NoFlight == [on |-> FALSE, awaiting |-> FALSE, reqs |-> <<>>]
Grounded == [on |-> TRUE, awaiting |-> FALSE, reqs |-> <<>>]

\* client.Do returns: the request is no longer in flight, and the caller goes on
landed(f) == [f EXCEPT !.awaiting = FALSE, !.reqs = Tail(@)]

\* what an answer holds: nothing that matters, a WebFinger or discovery
\* document, a NodeInfo document, or the response to a fetch
Content(kind, v) == [kind |-> kind, v |-> v]
NoContent == Content("none", <<>>)

\* no call before this one
NoFirst == [trace |-> <<>>, result |-> NoResult, err |-> NoErr]

\* the answers the servers give during a first call
SampledResponse(r) ==
    \/ r.net # "ok"
    \/ r.status = 404
    \/ r.status = 302 /\ r.location = UrlX
    \/ /\ r.status = 200
       /\ \/ r.body.k = "garbage"
          \/ /\ r.body.k = "json"
             /\ r.body.v \in {Obj("Note", Absent, Absent, Str(UrlActor), NoPK),
                               Obj("Note", Absent, Absent, Absent, PK("map", Str(<<"key">>)))}

Sampled(c) ==
    CASE c.kind = "response" -> SampledResponse(c.v)
      [] c.kind = "doc" -> Len(c.v) <= 1
      [] OTHER -> TRUE

\* servers that answer identically: a request of the second call that is the
\* request the first call made at this place gets the answer it got then
sameAnswer(k, a, c) ==
    k <= Len(first.trace) /\ first.trace[k].req = lastReq' =>
        first.trace[k].ans = a /\ first.trace[k].content = c

Replayed(a, c) ==
    CASE run = 1 -> Sampled(c)
      [] run = 2 -> sameAnswer(Len(trace) + 1, a, c)
      [] OTHER -> TRUE

\* the response a to the request for url is recorded; a server that stays
\* silent to a client without timeout keeps the request in flight
Answered(a, url, c) ==
    /\ lastResp' = a
    /\ failedURL' = IF RequestFailed(a) THEN url ELSE failedURL
    /\ flight.on => flight.awaiting
    /\ flight' = IF ~flight.on \/ a.class = "silent" THEN flight ELSE landed(flight)
    /\ Replayed(a, c)
    /\ trace' = IF run = 0 THEN trace
                ELSE Append(trace, [req |-> lastReq', ans |-> a, content |-> c])
    /\ UNCHANGED <<run, first>>

Top == stack[Len(stack)]

MarkLast(calls, outcome) == [calls EXCEPT ![Len(calls)].outcome = outcome]

InitCalled(S, f, n) ==
    /\ input \in S
    /\ flight = f
    /\ run = n
    /\ trace = <<>>
    /\ first = NoFirst
    /\ pc = "start"
    /\ route = ""
    /\ target = <<>>
    /\ stack = <<>>
    /\ actorURL = <<>>
    /\ keyID = <<>>
    /\ fmtIdx = 0
    /\ lastErr = NoErr
    /\ result = NoResult
    /\ err = NoErr
    /\ webfinger = NoDoc
    /\ discovery = NoDoc
    /\ fetchCalls = <<>>
    /\ issued = {}
    /\ lastReq = NoRequest
    /\ lastResp = NoAnswer
    /\ failedURL = <<>>
    /\ signPc = "idle"
    /\ resolutions = 0
    /\ reader = 0
    /\ privateKey = NoKey
    /\ unsignedReq = NoHTTPRequest
    /\ signedReq = NoHTTPRequest
    /\ usedKeys = <<>>
    /\ unwrapPc = "idle"
    /\ unwrapURL = <<>>
    /\ unwrapParsed = ParseError
    /\ unwrapOut = [result |-> NoResult, err |-> NoErr]
    /\ unwrapSeen = {}
    /\ cmdPc = "idle"
    /\ cmdArgs = <<>>
    /\ cmdStdin = <<>>
    /\ cmdInput = <<>>
    /\ cmdOut = [stdout |-> "", stderr |-> "", exit |-> 0]
    /\ renderPc = "idle"
    /\ renderRaw = <<>>
    /\ renderData = <<>>
    /\ renderFailed = FALSE
    /\ renderOut = [text |-> <<>>, err |-> NoErr]
    /\ guessPc = "idle"
    /\ guessURL = <<>>
    /\ guessUser = [username |-> <<>>, domain |-> <<>>]
    /\ guessIdx = 0
    /\ guessLog = <<>>
    /\ guessOut = [actorURL |-> <<>>, err |-> NoErr]
    /\ redirPc = "idle"
    /\ redirInput = <<>>
    /\ redirURL = <<>>
    /\ redirCount = 0
    /\ redirOut = [url |-> <<>>, err |-> NoErr]

InitWith(S) == InitCalled(S, NoFlight, 0)

Init == InitWith(Inputs)

\* Resolve returns (result, nil) or ("", error)
Return(r, e) ==
    /\ pc' = "done"
    /\ result' = r
    /\ err' = e
    /\ target' = <<>>
    /\ stack' = <<>>
    /\ actorURL' = <<>>
    /\ keyID' = <<>>

\* a runtime panic unwinds Resolve: nothing is returned
Panic ==
    /\ pc' = "panic"
    /\ target' = <<>>
    /\ stack' = <<>>
    /\ actorURL' = <<>>
    /\ keyID' = <<>>
    /\ UNCHANGED <<result, err, fmtIdx, lastErr>>

\* fetchActivityPubObject returned e while resolveURL had parsed the input as
\* parsedURL and split its path as c: the loop over urlFormats goes on to the
\* next format, or the error is returned
fetchFailsIn(e, calls, parsedURL, c) ==
    /\ lastErr' = e
    /\ fetchCalls' = MarkLast(calls, "failed")
    /\ IF fmtIdx > 0 /\ fmtIdx < Len(urlFormats)
       THEN /\ pc' = "fetch"
            /\ fmtIdx' = fmtIdx + 1
            /\ target' = TargetURL(fmtIdx + 1, c.originalDomain, c.username, c.postID)
            /\ stack' = <<>>
            /\ actorURL' = <<>>
            /\ keyID' = <<>>
            /\ UNCHANGED <<result, err>>
       ELSE /\ Return(NoResult,
                      IF fmtIdx > 0 THEN AllFormatsFailed(parsedURL, c.originalDomain, e)
                      ELSE e)
            /\ UNCHANGED fmtIdx

\* fetchActivityPubObject returned e to resolveURL or resolveHandle
FetchFails(e, calls) == fetchFailsIn(e, calls, Parse(input), CrossInstance(Parse(input)))

\* fetchActivityPubObject returned (raw, d): the caller formats and returns it
FetchSucceeds(raw, d) ==
    /\ Return(formatResult(raw, d), NoErr)
    /\ fetchCalls' = MarkLast(fetchCalls, "ok")
    /\ UNCHANGED <<fmtIdx, lastErr>>

\* the keyId is known, or not: the signed request is next, or the call fails
gotKey(key, st) ==
    CASE key.k = "ok" ->
           /\ pc' = "signed"
           /\ keyID' = key.keyID
           /\ stack' = st
           /\ UNCHANGED <<target, actorURL, fmtIdx, lastErr, result, err, fetchCalls>>
      [] key.k = "err" -> FetchFails(key.err, fetchCalls)
      [] key.k = "panic" -> Panic /\ UNCHANGED fetchCalls

\* the object of the direct fetch returned as the result of the call
GotData_DirectResult(d, st) == FetchSucceeds(Json(d), d)

\* fetchActivityPubObjectWithSignature for the innermost call of st, given the
\* object d its direct fetch returned: the keyId comes from the attributedTo actor or
\* from the object itself
GotData(d, st) ==
    IF UsesActor(d)
    THEN /\ pc' = "actor"
         /\ actorURL' = d.attributedTo.v
         /\ stack' = st
         /\ UNCHANGED <<target, keyID, fmtIdx, lastErr, result, err, fetchCalls>>
    ELSE gotKey(KeyFromObject(d), st)

\* ResolveObjectOrNodeInfo up to the discovery URL; parts is the URL split on '/'
ResolveObjectOrNodeInfo(parts) ==
    IF Len(parts) < 3
    THEN Return(NoResult, Err("InvalidURL", 0)) /\ UNCHANGED fmtIdx
    ELSE /\ pc' = "nodeinfo"
         /\ target' = NodeInfoURL(parts[3])
         /\ UNCHANGED <<stack, actorURL, keyID, fmtIdx, result, err>>

\* resolveHandle up to the WebFinger URL; parts is the handle split on '@'
resolveHandle(parts) ==
    IF Len(parts) # 2
    THEN Return(NoResult, Err("InvalidHandle", 0)) /\ UNCHANGED fmtIdx
    ELSE /\ pc' = "webfinger"
         /\ target' = WebFingerURL(parts[1], parts[2])
         /\ UNCHANGED <<stack, actorURL, keyID, fmtIdx, result, err>>

\* resolveURL up to the first fetchActivityPubObject call
resolveURL(parsedURL, c) ==
    IF parsedURL.err
    THEN Return(NoResult, Err("InvalidURL", 0)) /\ UNCHANGED fmtIdx
    ELSE /\ pc' = "fetch"
         /\ fmtIdx' = IF c.is THEN 1 ELSE 0
         /\ target' = IF c.is THEN TargetURL(1, c.originalDomain, c.username, c.postID)
                      ELSE input
         /\ UNCHANGED <<stack, actorURL, keyID, result, err>>

\* the branch of Resolve taken for route r
resolveRouted(r) ==
    /\ route' = r
    /\ CASE r = "nodeinfo" ->
              ResolveObjectOrNodeInfo(Split(URLString(Parse(inputNorm(input))), "/"))
         [] r = "webfinger" -> resolveHandle(HandleParts(input))
         [] r = "url" -> resolveURL(Parse(input), CrossInstance(Parse(input)))

\* resolveHandle after the three loops over the links
actorChosen_NoCheck(href) ==
    /\ pc' = "fetch"
    /\ target' = href
    /\ UNCHANGED <<stack, actorURL, keyID, result, err>>
actorChosen(href) ==
    IF href = <<>>
    THEN Return(NoResult, Err("WebFingerNoActorLink", 0))
    ELSE /\ pc' = "fetch"
         /\ target' = href
         /\ UNCHANGED <<stack, actorURL, keyID, result, err>>

\* fetchNodeInfo after the two loops over the links
nodeinfoChosen(href) ==
    IF href = <<>>
    THEN Return(NoResult, Err("NodeInfoSchemaUnsupported", 0))
    ELSE /\ pc' = "nodeinfo2"
         /\ target' = href
         /\ UNCHANGED <<stack, actorURL, keyID, result, err>>

\* fetchNodeInfo returns an error: ResolveObjectOrNodeInfo wraps it and Resolve
\* returns it
nodeinfoFailed_TryObject(kind, status) ==
    /\ pc' = "fetch"
    /\ target' = inputNorm(input)
    /\ UNCHANGED <<stack, actorURL, keyID, result, err>>
nodeinfoFailed(kind, status) == Return(NoResult, Err(kind, status))

\* fetchActivityPubObject after url.Parse
fetchParsed(calls, parsedURL) ==
    IF parsedURL.err
    THEN FetchFails(Err("InvalidURL", 0), calls)
    ELSE /\ pc' = "direct"
         /\ stack' = <<Frame(IF parsedURL.Scheme = <<>> THEN HTTPS \o target ELSE target,
                             <<>>, <<>>)>>
         /\ fetchCalls' = calls
         /\ UNCHANGED <<target, actorURL, keyID, fmtIdx, lastErr, result, err>>

\* the actor's key is extracted, or the call fails
actorKey(key) ==
    IF key.k = "err" THEN FetchFails(key.err, fetchCalls)
    ELSE /\ pc' = "signed"
         /\ keyID' = key.keyID
         /\ UNCHANGED <<target, stack, actorURL, fmtIdx, lastErr, result, err, fetchCalls>>

\* the direct attempt was answered with a status that is neither 200 nor a
\* redirect with a Location
directFailed_TrySigned(status) ==
    /\ pc' = "signed"
    /\ UNCHANGED <<target, stack, actorURL, keyID, fmtIdx, lastErr, result, err, fetchCalls>>
directFailed(status) == FetchFails(Err("FetchFailed", status), fetchCalls)

\* client.Do never returns: the direct attempt waits for ever
directBlocked ==
    /\ pc' = "blocked"
    /\ UNCHANGED <<target, stack, actorURL, keyID, fmtIdx, lastErr, result, err, fetchCalls>>

\* the signed attempt was answered with a status other than 200
signedFailed_AuthFallback(status) ==
    IF status = 401
    THEN /\ pc' = "direct"
         /\ UNCHANGED <<target, stack, actorURL, keyID, fmtIdx, lastErr, result, err,
                        fetchCalls>>
    ELSE FetchFails(Err("FetchFailed", status), fetchCalls)
signedFailed(status) == FetchFails(Err("FetchFailed", status), fetchCalls)

(***************************************************************************)
(* Actions                                                                 *)
(***************************************************************************)
\* Resolve up to its first request: the route, then resolveHandle up to the
\* WebFinger URL, resolveURL up to the first fetchActivityPubObject call, or
\* ResolveObjectOrNodeInfo up to the discovery URL
Resolve ==
    /\ pc = "start"
    /\ UNCHANGED <<input, webfinger, discovery, fetchCalls, issued, lastReq, lastResp,
                   failedURL, lastErr>>
    /\ UNCHANGED signVars
    /\ UNCHANGED laterVars
    /\ resolveRouted(Route(input))

\* resolveHandle: the WebFinger request and the choice of the actor URL
WebFingerRequest ==
    /\ pc = "webfinger"
    /\ issued' = issued \cup {"webfinger"}
    /\ lastReq' = Request("webfinger", target, <<>>, <<>>)
    /\ UNCHANGED <<input, route, discovery, fetchCalls, lastErr, fmtIdx>>
    /\ UNCHANGED signVars
    /\ UNCHANGED sideVars
    /\ \/ /\ Answered(Answer("error", 0), target, NoContent)
          /\ Return(NoResult, Err("WebFingerUnreachable", 0))
          /\ UNCHANGED webfinger
       \/ /\ CanSend(target)
          /\ \/ \E st \in ErrorStatuses :
                  /\ Answered(Answer("status", st), target, NoContent)
                  /\ Return(NoResult, Err("WebFingerUnreachable", st))
                  /\ UNCHANGED webfinger
             \/ /\ Answered(Answer("garbage", 0), target, NoContent)
                /\ Return(NoResult, Err("WebFingerMalformed", 0))
                /\ UNCHANGED webfinger
             \/ \E doc \in WebFingerDocs :
                  /\ Answered(Answer("json", 0), target, Content("doc", doc))
                  /\ webfinger' = doc
                  /\ actorChosen(SelectActorURL(doc))

\* fetchNodeInfo: the discovery request and the choice of the versioned document
NodeInfoDiscovery ==
    /\ pc = "nodeinfo"
    /\ issued' = issued \cup {"nodeinfo-discovery"}
    /\ lastReq' = Request("nodeinfo-discovery", target, <<>>, <<>>)
    /\ UNCHANGED <<input, route, fetchCalls, lastErr, fmtIdx, webfinger>>
    /\ UNCHANGED signVars
    /\ UNCHANGED sideVars
    /\ \/ /\ Answered(Answer("error", 0), target, NoContent)
          /\ nodeinfoFailed("NodeInfoUnreachable", 0)
          /\ UNCHANGED discovery
       \/ /\ CanSend(target)
          /\ \/ \E st \in ErrorStatuses :
                  /\ Answered(Answer("status", st), target, NoContent)
                  /\ nodeinfoFailed("NodeInfoUnreachable", st)
                  /\ UNCHANGED discovery
             \/ /\ Answered(Answer("garbage", 0), target, NoContent)
                /\ nodeinfoFailed("NodeInfoMalformed", 0)
                /\ UNCHANGED discovery
             \/ \E doc \in NodeInfoDiscoveryDocs :
                  /\ Answered(Answer("json", 0), target, Content("doc", doc))
                  /\ discovery' = doc
                  /\ nodeinfoChosen(SelectNodeInfoHref(doc))

\* fetchNodeInfo: the request for the versioned document; Resolve formats it
NodeInfoFetch ==
    /\ pc = "nodeinfo2"
    /\ issued' = issued \cup {"nodeinfo-document"}
    /\ lastReq' = Request("nodeinfo-document", target, <<>>, <<>>)
    /\ UNCHANGED <<input, route, fetchCalls, lastErr, fmtIdx, webfinger, discovery>>
    /\ UNCHANGED signVars
    /\ UNCHANGED sideVars
    /\ \/ /\ Answered(Answer("error", 0), target, NoContent)
          /\ nodeinfoFailed("NodeInfoUnreachable", 0)
       \/ /\ CanSend(target)
          /\ \/ \E st \in ErrorStatuses :
                  /\ Answered(Answer("status", st), target, NoContent)
                  /\ nodeinfoFailed("NodeInfoUnreachable", st)
             \/ /\ Answered(Answer("garbage", 0), target, NoContent)
                /\ nodeinfoFailed("NodeInfoMalformed", 0)
             \/ \E d \in {NodeInfoDoc, Obj("Note", Absent, Absent, Absent, NoPK)} :
                  /\ Answered(Answer("json", 0), target, Content("object", d))
                  /\ Return(Format(d), NoErr)

\* fetchActivityPubObject: the URL is parsed and given a scheme, then handed to
\* fetchActivityPubObjectWithSignature
FetchActivityPubObject ==
    /\ pc = "fetch"
    /\ webfinger' = NoDoc
    /\ discovery' = NoDoc
    /\ lastResp' = NoAnswer
    /\ UNCHANGED <<input, route, issued, lastReq, failedURL>>
    /\ UNCHANGED signVars
    /\ UNCHANGED laterVars
    /\ fetchParsed(Append(fetchCalls, [url |-> target, outcome |-> "pending"]), Parse(target))

\* fetchActivityPubObjectDirect for the innermost pending call: one GET that
\* does not follow redirects
DirectAttempt ==
    /\ pc = "direct"
    /\ issued' = issued \cup {"direct"}
    /\ lastReq' = Request("direct", Top.url, Top.base, Top.location)
    /\ UNCHANGED <<input, route, webfinger, discovery>>
    /\ UNCHANGED signVars
    /\ UNCHANGED sideVars
    /\ \E r \in {Timed(x, TimeoutOf("direct")) : x \in Responses(Top.url, Len(stack) <= MaxDepth)} :
         /\ Answered(AnswerOf(r), Top.url, Content("response", r))
         /\ IF r.net = "error" THEN FetchFails(Err("Transport", 0), fetchCalls)
            ELSE IF r.net = "silent" THEN directBlocked
            ELSE IF r.status \in RedirectStatuses /\ r.location # <<>>
            THEN /\ stack' = Append(stack, Frame(RedirectTarget(Top.url, r.location),
                                                 Top.url, r.location))
                 /\ UNCHANGED <<pc, target, actorURL, keyID, fmtIdx, lastErr, result, err,
                                fetchCalls>>
            ELSE IF r.status # 200 THEN directFailed(r.status)
            ELSE IF r.body.k = "empty" THEN FetchFails(Err("EmptyResponse", 0), fetchCalls)
            ELSE IF r.body.k = "garbage" THEN FetchFails(Err("DecodeFailed", 0), fetchCalls)
            ELSE GotData(r.body.v, stack)

\* fetchActorData and extractPublicKey for the innermost pending call
ActorFetch ==
    /\ pc = "actor"
    /\ issued' = issued \cup {"actor"}
    /\ lastReq' = Request("actor", actorURL, <<>>, <<>>)
    /\ UNCHANGED <<input, route, webfinger, discovery>>
    /\ UNCHANGED signVars
    /\ UNCHANGED sideVars
    /\ \E r \in {Timed(x, TimeoutOf("actor")) : x \in Responses(actorURL, FALSE)} :
         /\ Answered(AnswerOf(r), actorURL, Content("response", r))
         /\ IF r.net = "error" \/ r.status # 200 \/ r.body.k \in {"empty", "garbage"}
            THEN FetchFails(Err("NoSigningKey", r.status), fetchCalls)
            ELSE actorKey(extractPublicKey(r.body.v))

\* the signed GET of the innermost pending call; its answer is what the call
\* returns, to the caller of fetchActivityPubObject or to the pending call that
\* was redirected here, which goes on with its own key discovery
SignedAttempt ==
    /\ pc = "signed"
    /\ issued' = issued \cup {"signed"}
    /\ lastReq' = Request("signed", Top.url, Top.base, Top.location)
    /\ UNCHANGED <<input, route, webfinger, discovery>>
    /\ UNCHANGED signVars
    /\ UNCHANGED sideVars
    /\ \E r \in {Timed(x, TimeoutOf("signed")) : x \in Responses(Top.url, FALSE)} :
         /\ Answered(AnswerOf(r), Top.url, Content("response", r))
         /\ IF r.net = "error" THEN FetchFails(Err("Transport", 0), fetchCalls)
            ELSE IF r.status # 200 THEN signedFailed(r.status)
            ELSE IF r.body.k = "empty" THEN FetchFails(Err("EmptyResponse", 0), fetchCalls)
            ELSE IF r.body.k = "garbage" THEN FetchFails(Err("DecodeFailed", 0), fetchCalls)
            ELSE IF Len(stack) = 1 THEN FetchSucceeds(r.body, r.body.v)
            ELSE GotData(r.body.v, SubSeq(stack, 1, Len(stack) - 1))

Next ==
    \/ Resolve
    \/ WebFingerRequest
    \/ NodeInfoDiscovery
    \/ NodeInfoFetch
    \/ FetchActivityPubObject
    \/ DirectAttempt
    \/ ActorFetch
    \/ SignedAttempt

Spec == Init /\ [][Next]_vars

(***************************************************************************)
(* A resolution whose requests are followed in flight                      *)
(***************************************************************************)
MaxFlight == 2

\* the positions of the resolver at which a request is made
RequestSites == {"webfinger", "nodeinfo", "nodeinfo2", "direct", "actor", "signed"}

FlightInputs == {<<"a">>, <<"u", "@", "b">>, CrossInput}

InitFlight == InitCalled(FlightInputs, Grounded, 0)

\* the caller of client.Do waits until it returns
waits_Async(f) == f

waits(f) == [f EXCEPT !.awaiting = TRUE]

\* client.Do, client.Get: the request leaves, and the resolver waits for the
\* answer
Do ==
    /\ flight.on
    /\ ~flight.awaiting
    /\ pc \in RequestSites
    /\ Len(flight.reqs) < MaxFlight
    /\ flight' = waits([flight EXCEPT !.reqs = Append(@, pc)])
    /\ UNCHANGED <<resolveVars, signVars, sideVars, run, trace, first>>

NextFlight ==
    \/ Do
    \/ Next

SpecFlight == InitFlight /\ [][NextFlight]_vars

(***************************************************************************)
(* Two calls of Resolve on one Resolver                                    *)
(***************************************************************************)
TwiceInputs == {UrlX, <<"a">>, <<"u", "@", "b">>}

InitTwice == InitCalled(TwiceInputs, NoFlight, 1)

\* a call of Resolve starts: its local variables are new, and the Resolver
\* holds nothing but its http.Client
callStarts_Cached ==
    /\ pc' = "done"
    /\ UNCHANGED <<route, target, stack, actorURL, keyID, fmtIdx, lastErr, result, err,
                   webfinger, discovery, fetchCalls, issued, lastReq, lastResp, failedURL>>

callStarts ==
    /\ pc' = "start"
    /\ route' = ""
    /\ target' = <<>>
    /\ stack' = <<>>
    /\ actorURL' = <<>>
    /\ keyID' = <<>>
    /\ fmtIdx' = 0
    /\ lastErr' = NoErr
    /\ result' = NoResult
    /\ err' = NoErr
    /\ webfinger' = NoDoc
    /\ discovery' = NoDoc
    /\ fetchCalls' = <<>>
    /\ issued' = {}
    /\ lastReq' = NoRequest
    /\ lastResp' = NoAnswer
    /\ failedURL' = <<>>

\* Resolve is called again, with the same input
ResolveAgain ==
    /\ run = 1
    /\ pc = "done"
    /\ run' = 2
    /\ first' = [trace |-> trace, result |-> result, err |-> err]
    /\ trace' = <<>>
    /\ callStarts
    /\ UNCHANGED <<input, flight>>
    /\ UNCHANGED signVars
    /\ UNCHANGED sideVars

NextTwice ==
    \/ ResolveAgain
    \/ Next

SpecTwice == InitTwice /\ [][NextTwice]_vars

(***************************************************************************)
(* The classification alone, over every short input                        *)
(***************************************************************************)
InitClassify == InitWith(ClassifyInputs)

Classify ==
    /\ pc = "start"
    /\ pc' = "routed"
    /\ route' = Route(input)
    /\ UNCHANGED <<input, target, stack, actorURL, keyID, fmtIdx, lastErr, result, err,
                   webfinger, discovery, fetchCalls, issued, lastReq, lastResp, failedURL>>
    /\ UNCHANGED signVars
    /\ UNCHANGED laterVars

NextClassify == Classify

SpecClassify == InitClassify /\ [][NextClassify]_vars

(***************************************************************************)
(* The signed requests of successive resolutions                           *)
(***************************************************************************)
InitSign == InitWith({UrlX})

\* Resolve is called on a Resolver, which holds an http.Client and nothing else
BeginResolve ==
    /\ signPc = "idle"
    /\ UNCHANGED laterVars
    /\ resolutions < MaxResolutions
    /\ resolutions' = resolutions + 1
    /\ signPc' = "resolving"
    /\ UNCHANGED <<reader, privateKey, unsignedReq, signedReq, usedKeys>>
    /\ UNCHANGED resolveVars

\* a fetchActivityPubObjectWithSignature call has found the keyId for objectURL
KeyDiscovered ==
    /\ signPc = "resolving"
    /\ UNCHANGED laterVars
    /\ Len(usedKeys) < MaxSigned
    /\ \E u \in SignURLs, id \in SignKeyIDs :
         /\ target' = u
         /\ keyID' = id
    /\ signPc' = "discovered"
    /\ UNCHANGED <<resolutions, reader, privateKey, unsignedReq, signedReq, usedKeys>>
    /\ UNCHANGED <<input, pc, route, stack, actorURL, fmtIdx, lastErr, result, err,
                   webfinger, discovery, fetchCalls, issued, lastReq, lastResp, failedURL>>

\* the key of this signed attempt is generated and the request is built
GenerateKey ==
    /\ signPc = "discovered"
    /\ UNCHANGED laterVars
    /\ privateKey' = generateRSAKey(reader)
    /\ reader' = reader + 1
    /\ unsignedReq' = NewSignedRequest(target, Now)
    /\ signPc' = "built"
    /\ UNCHANGED <<resolutions, signedReq, usedKeys>>
    /\ UNCHANGED resolveVars

\* signRequest, then client.Do
SignAndSend ==
    /\ signPc = "built"
    /\ UNCHANGED laterVars
    /\ \E s \in {signRequest(unsignedReq, keyID, privateKey)} :
         IF s.ok
         THEN /\ signedReq' = s.req
              /\ usedKeys' = Append(usedKeys, [resolution |-> resolutions, key |-> privateKey])
              /\ signPc' = "sent"
         ELSE /\ signPc' = "resolving"
              /\ UNCHANGED <<signedReq, usedKeys>>
    /\ UNCHANGED <<resolutions, reader, privateKey, unsignedReq>>
    /\ UNCHANGED resolveVars

\* fetchActivityPubObjectWithSignature returns: its key and its request are
\* locals
CallReturns ==
    /\ signPc = "sent"
    /\ UNCHANGED laterVars
    /\ privateKey' = NoKey
    /\ unsignedReq' = NoHTTPRequest
    /\ signedReq' = NoHTTPRequest
    /\ signPc' = "resolving"
    /\ UNCHANGED <<resolutions, reader, usedKeys>>
    /\ UNCHANGED <<input, pc, route, stack, actorURL, fmtIdx, lastErr, result, err,
                   webfinger, discovery, fetchCalls, issued, lastReq, lastResp, failedURL>>
    /\ target' = <<>>
    /\ keyID' = <<>>

\* Resolve returns
EndResolve ==
    /\ signPc = "resolving"
    /\ UNCHANGED laterVars
    /\ signPc' = "idle"
    /\ UNCHANGED <<resolutions, reader, privateKey, unsignedReq, signedReq, usedKeys>>
    /\ UNCHANGED resolveVars

NextSign ==
    \/ BeginResolve
    \/ KeyDiscovered
    \/ GenerateKey
    \/ SignAndSend
    \/ CallReturns
    \/ EndResolve

SpecSign == InitSign /\ [][NextSign]_vars

(***************************************************************************)
(* The earlier fetchActivityPubObject, which unwraps shares                *)
(***************************************************************************)
\* the URLs an Announce may name, and the URLs the function may be called with
UnwrapURLs == {UrlX, UrlActor, UrlNode}
UnwrapInputs == UnwrapURLs \cup {<<"b", "/", "x">>, <<":">>}

\* the objects a server may answer with: notes and shares, whose object is
\* missing, inline, a string that is no URL, or a URL
UnwrapObjects ==
    {Obj(t, Absent, o, Absent, NoPK) :
        t \in {"Note", "Announce"},
        o \in {Absent, Inline, Str(<<"x">>)} \cup {Str(u) : u \in UnwrapURLs}}

UnwrapResponses(parsedURL) ==
    IF ~Sendable(parsedURL) THEN {TransportError}
    ELSE {TransportError}
         \cup {Response(st, <<>>, Garbage) : st \in ErrorStatuses}
         \cup {Response(200, <<>>, b) :
                 b \in {Empty, Garbage, Null} \cup {Json(d) : d \in UnwrapObjects}}

\* the object is a share whose original is to be fetched
IsShare(d) == d.type = "Announce" /\ HasScheme(GjsonString(d.object))

unwrapReturns(r, e) ==
    /\ unwrapPc' = "done"
    /\ unwrapOut' = [result |-> r, err |-> e]
    /\ unwrapURL' = <<>>
    /\ unwrapParsed' = ParseError

unwrapRequests(objectURL, parsedURL) ==
    IF parsedURL.err
    THEN unwrapReturns(NoResult, Err("InvalidURL", 0))
    ELSE /\ unwrapPc' = "fetch"
         /\ unwrapURL' = objectURL
         /\ unwrapParsed' = parsedURL
         /\ UNCHANGED unwrapOut

\* the head of the earlier fetchActivityPubObject: the URL is parsed, and
\* https:// is put before a URL without scheme, which is parsed again
unwrapEntered(objectURL, parsedURL) ==
    IF parsedURL.err
    THEN unwrapReturns(NoResult, Err("InvalidURL", 0))
    ELSE IF parsedURL.Scheme = <<>>
    THEN \E again \in {Parse(HTTPS \o objectURL)} :
            unwrapRequests(HTTPS \o objectURL, again)
    ELSE unwrapRequests(objectURL, parsedURL)

unwrapEnter(objectURL) ==
    \E parsedURL \in {Parse(objectURL)} : unwrapEntered(objectURL, parsedURL)

InitUnwrap == InitWith({UrlX})

\* resolveURL calls fetchActivityPubObject
UnwrapCall ==
    /\ unwrapPc = "idle"
    /\ \E u \in UnwrapInputs : unwrapEnter(u)
    /\ UNCHANGED unwrapSeen
    /\ UNCHANGED exceptUnwrap

\* the rest of one call: the object is requested and decoded, and a share makes
\* the function call itself on the URL of the original
unwrapAnswered(r) ==
    IF r.net = "error" THEN unwrapReturns(NoResult, Err("Transport", 0))
    ELSE IF r.status # 200 THEN unwrapReturns(NoResult, Err("FetchFailed", r.status))
    ELSE IF r.body.k = "empty" THEN unwrapReturns(NoResult, Err("EmptyResponse", 0))
    ELSE IF r.body.k = "garbage" THEN unwrapReturns(NoResult, Err("DecodeFailed", 0))
    ELSE IF IsShare(r.body.v) THEN unwrapEnter(GjsonString(r.body.v.object))
    ELSE unwrapReturns(Format(r.body.v), NoErr)

FetchAndUnwrap ==
    /\ unwrapPc = "fetch"
    /\ UNCHANGED exceptUnwrap
    /\ unwrapSeen' = unwrapSeen \cup {unwrapURL}
    /\ \E r \in UnwrapResponses(unwrapParsed) : unwrapAnswered(r)

NextUnwrap ==
    \/ UnwrapCall
    \/ FetchAndUnwrap

SpecUnwrap == InitUnwrap /\ [][NextUnwrap]_vars

\* every request is answered or, after the 30 seconds of the client, given up
SpecUnwrapFair == SpecUnwrap /\ WF_unwrapVars(FetchAndUnwrap)

(***************************************************************************)
(* cmd: the command that reads the input and calls the resolver            *)
(***************************************************************************)
MaxInput == 3

IsSpace(c) == c \in {" ", "\n"}

RECURSIVE TrimLeft(_)
TrimLeft(s) == IF s # <<>> /\ IsSpace(Head(s)) THEN TrimLeft(Tail(s)) ELSE s

RECURSIVE TrimRight(_)
TrimRight(s) ==
    IF s # <<>> /\ IsSpace(s[Len(s)]) THEN TrimRight(SubSeq(s, 1, Len(s) - 1)) ELSE s

\* strings.TrimSpace
TrimSpace(s) == TrimRight(TrimLeft(s))

\* bufio.Reader.ReadString: the text up to and with the first delimiter, or
\* all of it when there is none
RECURSIVE ReadString(_, _)
ReadString(s, delim) ==
    IF s = <<>> THEN <<>>
    ELSE IF Head(s) = delim THEN <<delim>>
    ELSE <<Head(s)>> \o ReadString(Tail(s), delim)

\* what a user may type: an argument of the command line, or text on standard input
CmdArguments == SeqsUpTo({" ", "b"}, MaxInput)
CmdLines == SeqsUpTo({" ", "b", "\n"}, MaxInput)

InitCmd == InitWith({UrlX})

\* the program is started: with no argument or one, and with some standard input
Execute ==
    /\ cmdPc = "idle"
    /\ \E a \in {<<>>} \cup {<<x>> : x \in CmdArguments} : cmdArgs' = a
    /\ \E l \in CmdLines : cmdStdin' = l
    /\ cmdPc' = "run"
    /\ UNCHANGED <<cmdInput, cmdOut>>
    /\ UNCHANGED exceptCmd

\* the input is the first argument or, without arguments, the trimmed line
\* read from standard input
readInput(args, stdin) ==
    IF Len(args) > 0 THEN args[1] ELSE TrimSpace(ReadString(stdin, "\n"))

\* rootCmd.Run as far as the call of Resolve: empty input ends the command
Run ==
    /\ cmdPc = "run"
    /\ cmdInput' = readInput(cmdArgs, cmdStdin)
    /\ IF cmdInput' = <<>>
       THEN /\ cmdPc' = "exit"
            /\ cmdOut' = [cmdOut EXCEPT !.stdout = "No URL or handle provided. Exiting."]
       ELSE /\ cmdPc' = "resolve"
            /\ UNCHANGED cmdOut
    /\ UNCHANGED <<cmdArgs, cmdStdin>>
    /\ UNCHANGED exceptCmd

\* Resolve returns: the result is printed, or the error is printed and the
\* command exits with code 1
ResolveReturns ==
    /\ cmdPc = "resolve"
    /\ cmdPc' = "exit"
    /\ \E failed \in BOOLEAN :
         cmdOut' = IF failed
                   THEN [cmdOut EXCEPT !.stderr = "Error resolving", !.exit = 1]
                   ELSE [cmdOut EXCEPT !.stdout = "result"]
    /\ UNCHANGED <<cmdArgs, cmdStdin, cmdInput>>
    /\ UNCHANGED exceptCmd

NextCmd ==
    \/ Execute
    \/ Run
    \/ ResolveReturns

SpecCmd == InitCmd /\ [][NextCmd]_vars

(***************************************************************************)
(* formatter: the text of the JSON and of the summary                      *)
(***************************************************************************)
MaxText == 2

\* a decoded JSON object: a function from its keys to their values
JObject(m) == [k |-> "map", v |-> m]

\* the keys of the documents, in the order json.MarshalIndent writes them
KeyOrder == <<"id", "name", "software", "type", "version">>

SortedKeys(m) == SelectSeq(KeyOrder, LAMBDA key : key \in DOMAIN m)

RECURSIVE Indent(_)
Indent(depth) == IF depth = 0 THEN <<>> ELSE <<"  ">> \o Indent(depth - 1)

\* the encoding of one character of a string: quote, backslash, newline and
\* '<' are escaped
escape(c) ==
    CASE c = "\"" -> <<"\\", "\"">>
      [] c = "\\" -> <<"\\", "\\">>
      [] c = "\n" -> <<"\\", "n">>
      [] c = "<" -> <<"\\", "u", "003c">>
      [] OTHER -> <<c>>

RECURSIVE escaped(_)
escaped(str) == IF str = <<>> THEN <<>> ELSE escape(Head(str)) \o escaped(Tail(str))

encodeString(str) == <<"\"">> \o escaped(str) \o <<"\"">>

RECURSIVE encodeValue(_, _)
RECURSIVE encodeMembers(_, _, _)
encodeMembers(m, keys, depth) ==
    IF keys = <<>> THEN <<>>
    ELSE Indent(depth) \o encodeString(<<Head(keys)>>) \o <<":", " ">>
         \o encodeValue(m[Head(keys)], depth)
         \o (IF Len(keys) > 1 THEN <<",", "\n">> ELSE <<"\n">>)
         \o encodeMembers(m, Tail(keys), depth)

encodeValue(value, depth) ==
    CASE value.k = "string" -> encodeString(value.v)
      [] value.k = "number" -> value.v
      [] value.k = "map" ->
           IF DOMAIN value.v = {} THEN <<"{", "}">>
           ELSE <<"{", "\n">> \o encodeMembers(value.v, SortedKeys(value.v), depth + 1)
                \o Indent(depth) \o <<"}">>

\* json.MarshalIndent(data, "", "  ")
MarshalIndent(data) == encodeValue(JObject(data), 0)

\* the outcome of reading a value: the value and the text after it
Unread == [ok |-> FALSE, v |-> Absent, rest |-> <<>>]
Read(value, rest) == [ok |-> TRUE, v |-> value, rest |-> rest]

IsBlank(t) == t \in {" ", "  ", "\n"}

RECURSIVE skipBlank(_)
skipBlank(text) ==
    IF text # <<>> /\ IsBlank(Head(text)) THEN skipBlank(Tail(text)) ELSE text

From(text, i) == SubSeq(text, i, Len(text))

\* the text of a string, read from behind its opening quote
RECURSIVE scanString(_, _)
scanString(text, acc) ==
    IF text = <<>> \/ Head(text) = "\n" THEN Unread
    ELSE IF Head(text) = "\"" THEN Read(acc, Tail(text))
    ELSE IF Head(text) # "\\" THEN scanString(Tail(text), Append(acc, Head(text)))
    ELSE IF Len(text) < 2 THEN Unread
    ELSE IF text[2] \in {"\"", "\\"} THEN scanString(From(text, 3), Append(acc, text[2]))
    ELSE IF text[2] = "n" THEN scanString(From(text, 3), Append(acc, "\n"))
    ELSE IF text[2] = "u" /\ Len(text) >= 3 /\ text[3] = "003c"
    THEN scanString(From(text, 4), Append(acc, "<"))
    ELSE Unread

stringValue(r) == IF r.ok THEN Read(Str(r.v), r.rest) ELSE Unread

WithMember(m, key, value) ==
    [x \in DOMAIN m \cup {key} |-> IF x = key THEN value ELSE m[x]]

RECURSIVE parseValue(_)
RECURSIVE parseMembers(_, _)
\* behind a member: a comma and the next member, or the end of the object
afterMember(text, m) ==
    IF text = <<>> THEN Unread
    ELSE IF Head(text) = "," THEN parseMembers(skipBlank(Tail(text)), m)
    ELSE IF Head(text) = "}" THEN Read(JObject(m), Tail(text))
    ELSE Unread

memberValue(m, key, r) ==
    IF ~r.ok THEN Unread ELSE afterMember(skipBlank(r.rest), WithMember(m, key, r.v))

afterKey(m, key, text) ==
    IF text = <<>> \/ Head(text) # ":" THEN Unread
    ELSE memberValue(m, key, parseValue(skipBlank(Tail(text))))

memberKey(m, r) ==
    IF ~r.ok \/ Len(r.v) # 1 THEN Unread ELSE afterKey(m, r.v[1], skipBlank(r.rest))

parseMembers(text, m) ==
    IF text = <<>> \/ Head(text) # "\"" THEN Unread
    ELSE memberKey(m, scanString(Tail(text), <<>>))

objectValue(text) ==
    IF text # <<>> /\ Head(text) = "}" THEN Read(JObject(<<>>), Tail(text))
    ELSE parseMembers(text, <<>>)

parseValue(text) ==
    IF text = <<>> THEN Unread
    ELSE IF Head(text) = "\"" THEN stringValue(scanString(Tail(text), <<>>))
    ELSE IF Head(text) = "1" THEN Read(Num, Tail(text))
    ELSE IF Head(text) = "{" THEN objectValue(skipBlank(Tail(text)))
    ELSE Unread

unmarshalled(r) ==
    IF r.ok /\ r.v.k = "map" /\ skipBlank(r.rest) = <<>>
    THEN [ok |-> TRUE, data |-> r.v.v]
    ELSE [ok |-> FALSE, data |-> <<>>]

\* json.Unmarshal into a map[string]interface{}
Unmarshal(text) == unmarshalled(parseValue(skipBlank(text)))

\* gjson.Get for a key, and for a key of an object under a key
Get(data, key) == IF key \in DOMAIN data THEN data[key] ELSE Absent
GetIn(data, key, inner) ==
    IF Get(data, key).k = "map" THEN Get(Get(data, key).v, inner) ELSE Absent
Exists(value) == value # Absent

\* the lines a summary has for the type of the object
typeLines(objectType) ==
    CASE objectType \in {<<"Person">>, <<"Service">>} -> <<"\n", "actor">>
      [] objectType \in {<<"Note">>, <<"Article">>} -> <<"\n", "content">>
      [] objectType \in {<<"Create">>, <<"Announce">>} -> <<"\n", "activity">>
      [] OTHER -> <<>>

idLine(id) == IF id # <<>> THEN <<"\n", "ID", ":", " ">> \o id ELSE <<>>

summaryOf(data) ==
    <<"Type", ":", " ">> \o GjsonString(Get(data, "type")) \o <<"\n">>
    \o idLine(GjsonString(Get(data, "id")))
    \o typeLines(GjsonString(Get(data, "type")))

\* createSummary of formatter.go: the header with the type, the id, and the
\* lines of the type; gjson reads the fields from the JSON text
createSummary(jsonStr) == summaryOf(Unmarshal(jsonStr).data)

\* the first line of the summary that part_000 has for a NodeInfo document
NodeInfoHeader == <<"NodeInfo Version", ":", " ">>

FormatFailure == [text |-> <<>>, err |-> Err("FormatJSON", 0)]

formatted_NoBlankLine(jsonStr) ==
    [text |-> jsonStr \o <<"\n">> \o createSummary(jsonStr), err |-> NoErr]

formatted(jsonStr) ==
    [text |-> jsonStr \o <<"\n", "\n">> \o createSummary(jsonStr), err |-> NoErr]

\* formatter.Format on the text level: the JSON, a blank line, the summary;
\* marshalFails stands for an error of json.MarshalIndent
FormatText(data, marshalFails) ==
    IF marshalFails THEN FormatFailure ELSE formatted(MarshalIndent(data))

\* formatResult, and the NodeInfo branch of Resolve: the rendering, or the raw
\* text when rendering failed; never an error
formatResultOf_NoFallback(raw, f) == f

formatResultOf(raw, f) ==
    IF f.err # NoErr THEN [text |-> raw, err |-> NoErr] ELSE f

formatResultText(raw, data, marshalFails) ==
    formatResultOf(raw, FormatText(data, marshalFails))

\* the JSON portion of an output: the text before the first blank line
RECURSIVE JSONPortion(_)
JSONPortion(text) ==
    IF Len(text) < 2 THEN text
    ELSE IF text[1] = "\n" /\ text[2] = "\n" THEN <<>>
    ELSE <<Head(text)>> \o JSONPortion(Tail(text))

\* the documents a server may hold
RenderChars == {"a", "\"", "\\", "\n", "<"}
RenderTexts == SeqsUpTo(RenderChars, MaxText)

Present(f) == [key \in {x \in DOMAIN f : f[x] # Absent} |-> f[key]]

RenderDocs ==
    {Present([type |-> t, id |-> i, software |-> sw, version |-> ver]) :
        t \in {Absent, Num, Str(<<"Note">>), Str(<<"Person">>), Str(<<"Zzz">>)},
        i \in {Absent} \cup {Str(x) : x \in RenderTexts},
        sw \in {Absent, Str(<<"a">>), JObject(<<>>), JObject([name |-> Str(<<"a">>)])},
        ver \in {Absent, Str(<<"2.1">>)}}

\* an ANSI escape sequence, and removeANSIEscapeCodes
ANSI == "ESC[0m"
removeANSIEscapeCodes(text) == SelectSeq(text, LAMBDA t : t # ANSI)

\* the bodies a server may send for a document: its JSON, its JSON coloured
RenderBodies(d) == {MarshalIndent(d), <<ANSI>> \o MarshalIndent(d) \o <<ANSI>>}

InitRender == InitWith({UrlX})

renderDecoded(raw, r) ==
    /\ renderRaw' = raw
    /\ renderData' = r.data
    /\ renderPc' = IF r.ok THEN "fetched" ELSE "failed"

\* a fetch reads the body, strips the escape sequences and decodes the rest
FetchBody ==
    /\ renderPc = "idle"
    /\ \E d \in RenderDocs :
         \E raw \in RenderBodies(d) \cup {<<"{">>} :
            renderDecoded(raw, Unmarshal(removeANSIEscapeCodes(raw)))
    /\ UNCHANGED <<renderFailed, renderOut>>
    /\ UNCHANGED exceptRender

\* the decoded body is rendered
FormatResult ==
    /\ renderPc = "fetched"
    /\ \E marshalFails \in BOOLEAN :
         /\ renderFailed' = marshalFails
         /\ renderOut' = formatResultText(renderRaw, renderData, marshalFails)
    /\ renderPc' = "done"
    /\ UNCHANGED <<renderRaw, renderData>>
    /\ UNCHANGED exceptRender

NextRender ==
    \/ FetchBody
    \/ FormatResult

SpecRender == InitRender /\ [][NextRender]_vars

(***************************************************************************)
(* Claims about the classification                                         *)
(***************************************************************************)
\* C1 as stated: an input without '/' and ':' of the form user@domain or
\* @user@domain (one '@' left after one leading '@' is stripped, both parts
\* non-empty) is routed to WebFinger, and every input with an '@' and a '/' or
\* a ':' is routed to URL handling.
C1_Original ==
    pc = "routed" =>
        LET rest == IF HasPrefix(input, <<"@">>) THEN SubSeq(input, 2, Len(input)) ELSE input
        IN /\ (/\ ~Contains(input, "/")
               /\ ~Contains(input, ":")
               /\ Count(rest, "@") = 1
               /\ Index(rest, "@") > 1
               /\ Index(rest, "@") < Len(rest)) => route = "webfinger"
           /\ (Contains(input, "@") /\ (Contains(input, "/") \/ Contains(input, ":")))
                 => route = "url"

\* C1 as amended: an input of the handle form is routed to WebFinger; an input
\* with an '@' and a '/' or a ':' is never routed to WebFinger: it is routed to
\* URL handling, or to NodeInfo when it has an authority ("//") and parses as a
\* bare domain.
C1_HandleRouting ==
    pc = "routed" =>
        LET rest == IF HasPrefix(input, <<"@">>) THEN SubSeq(input, 2, Len(input)) ELSE input
        IN /\ (/\ ~Contains(input, "/")
               /\ ~Contains(input, ":")
               /\ Count(rest, "@") = 1
               /\ Index(rest, "@") > 1
               /\ Index(rest, "@") < Len(rest)) => route = "webfinger"
           /\ (Contains(input, "@") /\ (Contains(input, "/") \/ Contains(input, ":")))
                 => /\ route \in {"url", "nodeinfo"}
                    /\ route = "nodeinfo" =>
                         /\ \E i \in 1..(Len(input) - 1) : input[i] = "/" /\ input[i + 1] = "/"
                         /\ LooksLikeRootDomain(Parse(input))

\* the handle @a@a has been routed to WebFinger
C1_Witness ==
    pc = "routed" /\ input = <<"@", "a", "@", "a">> /\ route = "webfinger"

\* C2: an input that, given https:// when it has neither a scheme nor an '@',
\* parses to a URL with a host, an empty or "/" path, no query and no fragment
\* takes the NodeInfo route, and neither a WebFinger request nor an object fetch
\* is made for it.
C2_BareDomainPrecedence ==
    (pc # "start" /\ LooksLikeRootDomain(Parse(inputNorm(input)))) =>
        /\ route = "nodeinfo"
        /\ issued \subseteq {"nodeinfo-discovery", "nodeinfo-document"}
        /\ fetchCalls = <<>>

\* a bare domain given with its scheme was resolved to its NodeInfo document
C2_Witness ==
    /\ pc = "done"
    /\ HasScheme(input)
    /\ route = "nodeinfo"
    /\ "nodeinfo-document" \in issued
    /\ result # NoResult

(***************************************************************************)
(* Claims about the outcome of Resolve                                     *)
(***************************************************************************)
\* C3 as stated: when Resolve has ended, exactly one of a result and an error
\* has been returned.
C3_Original ==
    pc \in {"done", "panic"} => ((result # NoResult) # (err # NoErr))

\* C4 as stated: the actor URL handed to fetchActivityPubObject is the href of
\* the first link with rel "self" and an activity+json type when there is one,
\* else of the first rel "self" link, else of the first profile-page link; when
\* no link matches, the resolution fails with WebFingerNoActorLink.
C4_Original ==
    webfinger # NoDoc =>
        LET a == {i \in 1..Len(webfinger) :
                    webfinger[i].rel = "self" /\ webfinger[i].type \in ActivityJSONTypes}
            b == {i \in 1..Len(webfinger) : webfinger[i].rel = "self"}
            c == {i \in 1..Len(webfinger) : webfinger[i].rel = ProfilePage}
            Min(S) == CHOOSE i \in S : \A j \in S : i <= j
            pick == IF a # {} THEN Min(a) ELSE IF b # {} THEN Min(b)
                    ELSE IF c # {} THEN Min(c) ELSE 0
        IN IF pick = 0 THEN pc = "done" /\ err.kind = "WebFingerNoActorLink"
           ELSE pc = "fetch" /\ target = webfinger[pick].href

\* C5 as stated: an object whose id is non-empty and differs from the URL
\* requested is not what Resolve returns: the id is resolved instead.
C5_Original ==
    (pc = "done" /\ result # NoResult /\ route # "nodeinfo") =>
        \/ GjsonString(result.json.id) = <<>>
        \/ result.json.id.v = lastReq.url

\* C6 as stated: the result of a successful resolution is never an Announce
\* whose object field is an http(s) URL string.
C6_Original ==
    (pc = "done" /\ result # NoResult) =>
        ~(/\ result.json.type = "Announce"
          /\ result.json.object.k = "string"
          /\ HasScheme(result.json.object.v))

(***************************************************************************)
(* Claims about cross-instance URLs                                        *)
(***************************************************************************)
\* C7: for the input http(s)://a/@u@b/1 the URLs handed to
\* fetchActivityPubObject are, in this order, https://b/@u/1,
\* https://b/users/u/statuses/1, https://b/notice/1, https://b/notes/1,
\* https://b/display/1 and https://b/item/1; each but the last has failed, a
\* success is the last call and its result is returned, and there are at most 6.
C7_TemplateOrder ==
    input \in {CrossInput, HTTP \o SubSeq(CrossInput, 5, Len(CrossInput))} =>
        LET expected == << HTTPS \o <<"b", "/", "@", "u", "/", "1">>,
                           HTTPS \o <<"b", "/", "users", "/", "u", "/", "statuses", "/", "1">>,
                           HTTPS \o <<"b", "/", "notice", "/", "1">>,
                           HTTPS \o <<"b", "/", "notes", "/", "1">>,
                           HTTPS \o <<"b", "/", "display", "/", "1">>,
                           HTTPS \o <<"b", "/", "item", "/", "1">> >>
        IN /\ Len(fetchCalls) <= 6
           /\ \A k \in 1..Len(fetchCalls) :
                /\ fetchCalls[k].url = expected[k]
                /\ k < Len(fetchCalls) => fetchCalls[k].outcome = "failed"
                /\ fetchCalls[k].outcome = "ok" => pc = "done" /\ result # NoResult
           /\ (pc = "done" /\ result # NoResult) =>
                 /\ fetchCalls # <<>>
                 /\ fetchCalls[Len(fetchCalls)].outcome = "ok"

\* the third format succeeded after the first two had failed
C7_Witness ==
    /\ input = CrossInput
    /\ pc = "done"
    /\ Len(fetchCalls) = 3
    /\ fetchCalls[3].outcome = "ok"

\* C8 as stated: the CrossInstanceUnresolved error carries the error of the
\* last attempt.
C8_Original ==
    (pc = "done" /\ err.kind = "CrossInstanceUnresolved") =>
        /\ lastErr # NoErr
        /\ err.cause = [kind |-> lastErr.kind, status |-> lastErr.status]

\* C9: when all formats have failed for http(s)://a/@u@b/1, the error names b,
\* not the host of the input; six fetches were made, every one of a URL on b,
\* and none of the input URL.
C9_NamesOriginalHost ==
    (pc = "done" /\ err.kind = "CrossInstanceUnresolved") =>
        /\ err.domain = <<"b">>
        /\ err.domain # Parse(input).Host
        /\ Len(fetchCalls) = 6
        /\ \A k \in 1..Len(fetchCalls) :
             /\ fetchCalls[k].url # input
             /\ fetchCalls[k].outcome = "failed"
             /\ Parse(fetchCalls[k].url).Host = <<"b">>
        /\ lastReq.url # input

\* every format has failed for https://a/@u@b/1
C9_Witness ==
    /\ input = CrossInput
    /\ pc = "done"
    /\ err.kind = "CrossInstanceUnresolved"
    /\ Len(fetchCalls) = 6

(***************************************************************************)
(* Claims about redirects                                                  *)
(***************************************************************************)
\* C10 as stated: a request made because of a redirect goes to the Location
\* resolved against the URL that was redirected.
C10_Original ==
    (lastReq.kind \in {"direct", "signed"} /\ lastReq.location # <<>>) =>
        lastReq.url = ResolveReference(lastReq.base, lastReq.location)

(***************************************************************************)
(* Claims about key discovery and the signed attempt                       *)
(***************************************************************************)
\* C11 as stated: a signed request is sent only once a keyId has been
\* determined, and key discovery that finds no keyId ends the fetch with
\* NoSigningKey: the signed attempt never starts with an empty keyId and key
\* discovery never ends in anything but a keyId or an error.
C11_Original ==
    /\ pc = "signed" => keyID # <<>>
    /\ pc # "panic"

C13_Original ==
    (lastReq.kind \in {"direct", "signed"} /\ lastResp.class \in {"empty", "garbage", "null"}) =>
        /\ pc \in {"done", "fetch"}
        /\ lastErr.kind = IF lastResp.class = "empty" THEN "EmptyResponse" ELSE "DecodeFailed"
        /\ fetchCalls[Len(fetchCalls)].outcome = "failed"
        /\ pc = "done" => result = NoResult

(***************************************************************************)
(* Claims about the NodeInfo and WebFinger routes                          *)
(***************************************************************************)
\* C14 as stated: the versioned document fetched is that of a link whose rel
\* ends in /schema/2.1 whenever the discovery document has one, and of a link
\* whose rel ends in /schema/2.0 only when it has no 2.1 link; when it has
\* neither, discovery fails with NodeInfoSchemaUnsupported and no second fetch
\* is made.
C14_Original ==
    (discovery # NoDoc /\ lastReq.kind = "nodeinfo-discovery") =>
        LET v21 == {i \in 1..Len(discovery) :
                      HasSuffix(discovery[i].rel, <<"/", "schema", "/", "2.1">>)}
            v20 == {i \in 1..Len(discovery) :
                      HasSuffix(discovery[i].rel, <<"/", "schema", "/", "2.0">>)}
        IN IF v21 # {} THEN pc = "nodeinfo2" /\ \E i \in v21 : discovery[i].href = target
           ELSE IF v20 # {} THEN pc = "nodeinfo2" /\ \E i \in v20 : discovery[i].href = target
           ELSE pc = "done" /\ err.kind = "NodeInfoSchemaUnsupported"

\* C15: on the NodeInfo route a request that gets no response or a status
\* other than 200, and a body that does not decode, end Resolve with the
\* NodeInfoUnreachable or NodeInfoMalformed error and no result; nothing else
\* is tried: no WebFinger request, no actor fetch and no object fetch.
C15_NodeInfoFailureTerminal ==
    (route = "nodeinfo" /\ lastResp.class \in {"error", "status", "garbage"}) =>
        /\ pc = "done"
        /\ result = NoResult
        /\ err = Err(IF lastResp.class = "garbage" THEN "NodeInfoMalformed"
                     ELSE "NodeInfoUnreachable", lastResp.status)
        /\ lastReq.kind \in {"nodeinfo-discovery", "nodeinfo-document"}
        /\ issued \cap {"webfinger", "actor", "direct", "signed"} = {}
        /\ fetchCalls = <<>>

\* the request for the versioned document of a bare domain was answered 404
C15_Witness ==
    /\ route = "nodeinfo"
    /\ pc = "done"
    /\ lastReq.kind = "nodeinfo-document"
    /\ lastResp = Answer("status", 404)
    /\ err.kind = "NodeInfoUnreachable"

\* C16: on the handle route, a WebFinger request that gets no response or a
\* status other than 200 ends Resolve with WebFingerUnreachable, a body that
\* does not decode with WebFingerMalformed, and a document without a "self" or
\* profile-page link with WebFingerNoActorLink; in each case no actor or object
\* URL is requested.
C16_WebFingerFailureTerminal ==
    /\ (route = "webfinger" /\ lastResp.class \in {"error", "status", "garbage"}
          /\ lastReq.kind = "webfinger") =>
            /\ pc = "done"
            /\ result = NoResult
            /\ err = Err(IF lastResp.class = "garbage" THEN "WebFingerMalformed"
                         ELSE "WebFingerUnreachable", lastResp.status)
            /\ issued = {"webfinger"}
            /\ fetchCalls = <<>>
    /\ (webfinger # NoDoc
          /\ \A i \in 1..Len(webfinger) : webfinger[i].rel \notin {"self", ProfilePage}) =>
            /\ pc = "done"
            /\ result = NoResult
            /\ err = Err("WebFingerNoActorLink", 0)
            /\ issued = {"webfinger"}
            /\ fetchCalls = <<>>

\* a WebFinger document whose only link has another rel ended the resolution
C16_Witness ==
    /\ route = "webfinger"
    /\ pc = "done"
    /\ webfinger # NoDoc
    /\ Len(webfinger) = 1
    /\ webfinger[1].rel = "other"
    /\ err.kind = "WebFingerNoActorLink"

(***************************************************************************)
(* Claims about retries                                                    *)
(***************************************************************************)
\* C17 as stated: once a request to a URL has failed, no request to that URL
\* is issued again in the resolution: the URL of the request that is next is
\* never the URL that failed last.
C17_Original ==
    failedURL # <<>> =>
        /\ pc \in {"direct", "signed"} => Top.url # failedURL
        /\ pc = "actor" => actorURL # failedURL
        /\ pc \in {"webfinger", "nodeinfo", "nodeinfo2"} => target # failedURL

\* C17 as amended: a request that gets no response, or a status that is
\* neither 200 nor a redirect with a Location, ends the call of
\* fetchActivityPubObject (or the WebFinger or NodeInfo route) that issued it:
\* that call issues no further request and leaves none pending. Resolve then
\* returns an error, or, for a cross-instance URL, goes on to the next format;
\* outside the cross-instance formats nothing is requested after a failure.
C17_FailureEndsCall ==
    /\ RequestFailed(lastResp) =>
         /\ pc \in {"done", "fetch"}
         /\ stack = <<>>
         /\ pc = "done" => result = NoResult /\ err # NoErr
         /\ pc = "fetch" =>
              /\ fmtIdx \in 2..Len(urlFormats)
              /\ Len(fetchCalls) = fmtIdx - 1
              /\ fetchCalls[Len(fetchCalls)].outcome = "failed"
    /\ (failedURL # <<>> /\ fmtIdx = 0) => pc = "done"

\* the first cross-instance format failed on a 404 and the second is next
C17_Witness ==
    /\ input = CrossInput
    /\ pc = "fetch"
    /\ fmtIdx = 2
    /\ lastResp = Answer("status", 404)
    /\ failedURL # <<>>

(***************************************************************************)
(* Claims about request signing                                            *)
(***************************************************************************)
\* C18: when signRequest has returned without error, the URL and the method of
\* the request are what they were, as are the headers it had; the request has
\* a Host header (the host of its URL), its Date header, the Digest of the
\* empty body, and a Signature header for the keyId given whose signed headers
\* are (request-target), host, date, digest in that order.
C18_SigningAddsHeaders ==
    signPc = "sent" =>
        /\ signedReq.url = unsignedReq.url
        /\ signedReq.method = unsignedReq.method
        /\ signedReq.method = "GET"
        /\ signedReq.body = unsignedReq.body
        /\ signedReq.Accept = unsignedReq.Accept
        /\ signedReq.UserAgent = unsignedReq.UserAgent
        /\ signedReq.Date = unsignedReq.Date
        /\ signedReq.Date # ""
        /\ signedReq.Host = Parse(unsignedReq.url).Host
        /\ signedReq.Host # <<>>
        /\ signedReq.Digest = EmptyBodyDigest
        /\ signedReq.Signature.keyId = keyID
        /\ signedReq.Signature.headers = <<"(request-target)", "host", "date", "digest">>

\* a request for https://b/users/u was signed for a keyId and sent
C18_Witness ==
    /\ signPc = "sent"
    /\ unsignedReq.url = UrlActor
    /\ unsignedReq.Host = <<>>
    /\ signedReq.Host = <<"b">>
    /\ signedReq.Signature.keyId = <<"k">>

\* C19: the key that signs a request was generated in the running call from
\* crypto/rand.Reader: no key that signed a request in one resolution signs a
\* request in another, and no key is held once the call that generated it has
\* returned (the Resolver keeps none).
C19_KeysEphemeral ==
    /\ \A i, j \in 1..Len(usedKeys) :
         usedKeys[i].resolution # usedKeys[j].resolution => usedKeys[i].key # usedKeys[j].key
    /\ \A i \in 1..Len(usedKeys) : usedKeys[i].key # NoKey
    /\ signPc \in {"idle", "resolving", "discovered"} => privateKey = NoKey
    /\ signPc = "sent" => usedKeys[Len(usedKeys)] = [resolution |-> resolutions,
                                                      key |-> privateKey]

\* two resolutions have each sent a signed request
C19_Witness ==
    /\ Len(usedKeys) >= 2
    /\ usedKeys[1].resolution = 1
    /\ usedKeys[Len(usedKeys)].resolution = 2
    /\ signPc = "idle"

(***************************************************************************)
(* Claims about request headers                                            *)
(***************************************************************************)
\* C20 as stated: every request issued in a resolution carries the FediResolve
\* User-Agent header.
C20_Original ==
    lastReq.kind # "" => lastReq.userAgent = UserAgent

\* C21 as stated: the direct and the signed GET of an object carry an Accept
\* header that lists application/activity+json, application/ld+json and
\* application/json.
C21_Original ==
    lastReq.kind \in {"direct", "signed"} =>
        \A t \in {"application/activity+json", "application/ld+json", "application/json"} :
            \E i \in 1..Len(lastReq.accept) : lastReq.accept[i].type = t

\* C22 as stated: every request is issued through a client with the 30 second
\* timeout, and no request waits for ever for a server that never answers.
C22_Original ==
    /\ lastReq.kind # "" => lastReq.timeout = ClientTimeout
    /\ pc # "blocked"

(***************************************************************************)
(* Claims about termination                                                *)
(***************************************************************************)
\* C29 as stated: when a URL redirects to itself, fetchActivityPubObject ends
\* after a bounded number of requests: the fetches of that URL pending in one
\* call never exceed the bound on the nesting, whatever that bound is.
C29_Original ==
    ~(/\ pc = "direct"
      /\ Len(stack) > MaxDepth
      /\ \A i \in 1..Len(stack) : stack[i].url = stack[1].url)

\* C30 as stated: a call of the fetchActivityPubObject that unwraps shares
\* ends, in a result or in an error, whatever the servers answer.
C30_Original == (unwrapPc = "fetch") ~> (unwrapPc = "done")

\* C28 as stated: Resolve is only called with a trimmed, non-empty string,
\* whether the input came from the command line or from the prompt; empty or
\* whitespace-only input is rejected before the call and never reported as a
\* resolution error.
C28_Original ==
    /\ cmdPc = "resolve" => cmdInput # <<>> /\ cmdInput = TrimSpace(cmdInput)
    /\ cmdOut.stderr # "" => TrimSpace(cmdInput) # <<>>

\* C25: whenever a body was fetched and decoded but rendering fails, the
\* resolver returns the raw text exactly as received and no error.
C25_RawOnRenderFailure ==
    renderPc = "done" /\ renderFailed =>
        renderOut = [text |-> renderRaw, err |-> NoErr]

\* a coloured body whose rendering failed has been returned
C25_Witness ==
    /\ renderPc = "done"
    /\ renderFailed
    /\ renderRaw # MarshalIndent(renderData)
    /\ "id" \in DOMAIN renderData

\* C26 as stated: the summary is the NodeInfo summary exactly when the
\* document has both software.name and version; every other document gets the
\* header with its type.
C26_Original ==
    renderPc = "done" /\ ~renderFailed =>
        \E summary \in {From(renderOut.text, Len(MarshalIndent(renderData)) + 3)} :
            IF Exists(GetIn(renderData, "software", "name")) /\ Exists(Get(renderData, "version"))
            THEN SubSeq(summary, 1, 3) = NodeInfoHeader
            ELSE SubSeq(summary, 1, 3) = <<"Type", ":", " ">>

\* C27: the output of Format is the JSON, a blank line and the summary, and
\* decoding the JSON portion gives back the object that was passed in.
C27_RoundTrip ==
    renderPc = "done" /\ ~renderFailed =>
        /\ renderOut.text = JSONPortion(renderOut.text) \o <<"\n", "\n">>
                             \o createSummary(JSONPortion(renderOut.text))
        /\ Unmarshal(JSONPortion(renderOut.text)) = [ok |-> TRUE, data |-> renderData]

\* an object whose id holds characters that JSON escapes has been rendered
C27_Witness ==
    /\ renderPc = "done"
    /\ ~renderFailed
    /\ Get(renderData, "id") = Str(<<"\"", "\n">>)
    /\ Exists(GetIn(renderData, "software", "name"))

\* C23: at every moment of a resolution at most one request is in flight, the
\* resolver waits exactly while one is, and what is in flight is the request
\* of the position the resolver stands at.
C23_OneInFlight ==
    /\ Len(flight.reqs) <= 1
    /\ flight.awaiting <=> flight.reqs # <<>>
    /\ flight.awaiting => flight.reqs[1] = pc \/ pc = "blocked"

\* the direct request of the third cross-instance template is in flight, after
\* an actor fetch for key discovery
C23_Witness ==
    /\ flight.reqs = <<"direct">>
    /\ fmtIdx = 3
    /\ "actor" \in issued

C31_Original ==
    /\ pc # "panic"
    /\ (lastReq.kind = "direct" /\ lastResp.class \in {"json", "null"}
        /\ pc \in {"done", "fetch"}) => lastErr.kind = "NoSigningKey"

\* C32 as stated: once the signed request of a fetch has been answered with a
\* decodable object, the fetch is over and Resolve returns that object; nothing
\* is requested from the URL that redirected, and no later failure makes the
\* fetch an error.
C32_Original ==
    (lastReq.kind = "signed" /\ lastResp.class = "json") =>
        /\ pc = "done"
        /\ err = NoErr
        /\ result # NoResult

\* C34 as stated: no signed attempt starts with the empty keyId; an empty
\* publicKey.id is no key on either path of key discovery.
C34_Original == keyID = <<>> => pc # "signed"

\* the requests of a call that belong to fetchActivityPubObject, in the order
\* they were made
fetchTrace == SelectSeq(trace, LAMBDA e : e.req.kind \in {"direct", "actor", "signed"})

NoEntry == [req |-> NoRequest, ans |-> NoAnswer, content |-> NoContent]
entryAt(t, k) == IF k \in 1..Len(t) THEN t[k] ELSE NoEntry
decoded(e) == e.ans.class \in {"json", "null"}
fetched(runs) == pc = "done" /\ err = NoErr /\ fetchCalls # <<>> /\ run \in runs

C35_Original ==
    renderPc = "fetched" => Unmarshal(renderRaw) = [ok |-> TRUE, data |-> renderData]

\* C36 as stated: an input routed to WebFinger splits into a username and a
\* domain that are both non-empty, and no WebFinger request is made for an
\* empty account or to an empty host.
C36_Original ==
    /\ route = "webfinger" =>
          \E parts \in {HandleParts(input)} :
              Len(parts) = 2 /\ parts[1] # <<>> /\ parts[2] # <<>>
    /\ lastReq.kind = "webfinger" =>
          /\ Parse(lastReq.url).Host # <<>>
          /\ \A i \in 1..(Len(lastReq.url) - 1) :
                ~(lastReq.url[i] = "%3A" /\ lastReq.url[i + 1] = "%40")

\* the segments of a path, without the '/' it begins with
pathSegments(path) == Split(IF HasPrefix(path, <<"/">>) THEN Tail(path) ELSE path, "/")

actorURLs(domain, username) ==
    << HTTPS \o domain \o <<"/", "users", "/">> \o username,
       HTTPS \o domain \o <<"/", "@">> \o username,
       HTTPS \o domain \o <<"/", "user", "/">> \o username,
       HTTPS \o domain \o <<"/", "accounts", "/">> \o username,
       HTTPS \o domain \o <<"/", "profile", "/">> \o username >>

\* the username without its '@', and the domain of a handle user@domain
guessHandle(domain, username, userParts) ==
    IF Contains(username, "@") /\ Len(userParts) = 2
    THEN [username |-> userParts[1], domain |-> userParts[2]]
    ELSE [username |-> username, domain |-> domain]

UserDirectories == {<<"users">>, <<"user">>, <<"accounts">>, <<"profile">>}

\* resolveActorViaWebFinger: the URL requested, without escaping
ActorWebFingerURL(username, domain) ==
    HTTPS \o domain \o <<"/", ".well-known", "/", "webfinger", "?", "resource=acct", ":">>
    \o username \o <<"@">> \o domain

\* resolveActorViaWebFinger: the href of the first self link of an ActivityPub type
actorLink(links) ==
    FirstHref(links, {i \in 1..Len(links) :
                        links[i].rel = "self" /\ links[i].type \in ActivityJSONTypes})

\* the object URLs given: a local handle, a handle of another instance, a
\* handle with three '@', a user directory, and URLs that are too short
GuessInputs ==
    { HTTPS \o <<"a", "/", "@", "u", "/", "1">>,
      HTTPS \o <<"a", "/", "@", "u">>,
      HTTPS \o <<"a", "/", "@", "u", "@", "b", "/", "1">>,
      HTTPS \o <<"a", "/", "@", "u", "@", "b", "@", "c", "/", "1">>,
      HTTPS \o <<"a", "/", "users", "/", "u", "/", "1">>,
      HTTPS \o <<"a", "/", "users">>,
      HTTPS \o <<"a", "/", "x", "/", "1">>,
      HTTPS \o <<"a">>,
      <<"a", "/", "@", "u">> }

\* how fetchActorData ends: no response, a status other than 200, a body that
\* is not JSON, the body null (no error and no data), or an object
ActorAnswers == {"error", "status", "garbage", "null", "json"}

\* the WebFinger documents answered to resolveActorViaWebFinger
GuessLinks ==
    [rel : {"self", "other"}, type : {"application/activity+json", "text/html"},
     href : {<<>>, UrlActor}]
GuessDocs == SeqsUpTo(GuessLinks, MaxLinks)

InitGuess == InitWith({UrlX})

guessReturns(u, e) ==
    /\ guessPc' = "done"
    /\ guessOut' = [actorURL |-> u, err |-> e]

\* the function up to its first request; parts is the object URL split on '/'
guessEnter(parts) ==
    IF Len(parts) < 4
    THEN guessReturns(<<>>, Err("InvalidObjectURL", 0)) /\ UNCHANGED <<guessUser, guessIdx>>
    ELSE IF HasPrefix(parts[4], <<"@">>)
    THEN /\ guessPc' = "candidates"
         /\ guessUser' = guessHandle(parts[3], Tail(parts[4]), Split(Tail(parts[4]), "@"))
         /\ guessIdx' = 1
         /\ UNCHANGED guessOut
    ELSE IF parts[4] \in UserDirectories
    THEN /\ IF Len(parts) < 5 THEN guessReturns(<<>>, Err("InvalidObjectURL", 0))
            ELSE guessReturns(HTTPS \o parts[3] \o <<"/">> \o parts[4] \o <<"/">> \o parts[5],
                              NoErr)
         /\ UNCHANGED <<guessUser, guessIdx>>
    ELSE guessReturns(<<>>, Err("NoActorURL", 0)) /\ UNCHANGED <<guessUser, guessIdx>>

ExtractActorURL ==
    /\ guessPc = "idle"
    /\ \E u \in GuessInputs :
         /\ guessURL' = u
         /\ guessEnter(Split(u, "/"))
    /\ UNCHANGED guessLog
    /\ UNCHANGED exceptGuess

\* a candidate that failed sends the function to WebFinger at once
candidateAnswered_WebFingerNext(candidate, ans) ==
    IF ans = "json"
    THEN guessReturns(candidate, NoErr) /\ UNCHANGED guessIdx
    ELSE /\ guessPc' = "webfinger"
         /\ UNCHANGED <<guessIdx, guessOut>>

\* one turn of the loop over actorURLs: the candidate is returned when
\* fetchActorData gave data and no error, else the next is tried, and
\* WebFinger after the last
candidateAnswered(candidate, ans) ==
    IF ans = "json"
    THEN guessReturns(candidate, NoErr) /\ UNCHANGED guessIdx
    ELSE IF guessIdx < Len(actorURLs(guessUser.domain, guessUser.username))
    THEN /\ guessIdx' = guessIdx + 1
         /\ UNCHANGED <<guessPc, guessOut>>
    ELSE /\ guessPc' = "webfinger"
         /\ UNCHANGED <<guessIdx, guessOut>>

TryActorURL ==
    /\ guessPc = "candidates"
    /\ \E ans \in ActorAnswers :
         \E candidate \in {actorURLs(guessUser.domain, guessUser.username)[guessIdx]} :
            /\ guessLog' = Append(guessLog, [kind |-> "actor", url |-> candidate, ans |-> ans])
            /\ candidateAnswered(candidate, ans)
    /\ UNCHANGED <<guessURL, guessUser>>
    /\ UNCHANGED exceptGuess

\* resolveActorViaWebFinger: one request, and the link chosen from its answer
ResolveActorViaWebFinger ==
    /\ guessPc = "webfinger"
    /\ \E webfingerURL \in {ActorWebFingerURL(guessUser.username, guessUser.domain)} :
         \/ /\ guessLog' = Append(guessLog, [kind |-> "webfinger", url |-> webfingerURL,
                                             ans |-> "error"])
            /\ guessReturns(<<>>, Err("WebFingerUnreachable", 0))
         \/ \E st \in ErrorStatuses :
              /\ guessLog' = Append(guessLog, [kind |-> "webfinger", url |-> webfingerURL,
                                               ans |-> "status"])
              /\ guessReturns(<<>>, Err("WebFingerUnreachable", st))
         \/ \E doc \in GuessDocs :
              /\ guessLog' = Append(guessLog, [kind |-> "webfinger", url |-> webfingerURL,
                                               ans |-> "json"])
              /\ IF actorLink(doc) = <<>>
                 THEN guessReturns(<<>>, Err("WebFingerNoActorLink", 0))
                 ELSE guessReturns(actorLink(doc), NoErr)
    /\ UNCHANGED <<guessURL, guessUser, guessIdx>>
    /\ UNCHANGED exceptGuess

NextGuess ==
    \/ ExtractActorURL
    \/ TryActorURL
    \/ ResolveActorViaWebFinger

SpecGuess == InitGuess /\ [][NextGuess]_vars

\* the prefixes of the five candidates, as the claim lists them
CandidatePaths ==
    << <<"/", "users", "/">>, <<"/", "@">>, <<"/", "user", "/">>, <<"/", "accounts", "/">>,
       <<"/", "profile", "/">> >>

\* C38: for an object URL whose first path segment starts with '@', the
\* requests made are the five candidates in their order, against the domain
\* of the handle when the segment is @u@domain, then one WebFinger request;
\* no request follows a candidate that succeeded, which is what is returned;
\* WebFinger comes only after five failures; at most six requests are made.
C38_BoundedOrderedFallback ==
    guessPc # "idle" =>
        \E seg \in {IF Len(Split(guessURL, "/")) >= 4 THEN Split(guessURL, "/")[4] ELSE <<>>} :
          \E own \in {HasPrefix(seg, <<"@">>) /\ Count(seg, "@") = 2} :
            \E dom \in {IF own THEN After(Tail(seg), "@")
                        ELSE IF seg = <<>> THEN <<>> ELSE Split(guessURL, "/")[3]} :
              \E user \in {IF own THEN Before(Tail(seg), "@")
                           ELSE IF seg = <<>> THEN <<>> ELSE Tail(seg)} :
                /\ Len(guessLog) <= 6
                /\ guessLog # <<>> => HasPrefix(seg, <<"@">>)
                /\ \A k \in 1..Len(guessLog) :
                     /\ k <= 5 =>
                          /\ guessLog[k].kind = "actor"
                          /\ guessLog[k].url = HTTPS \o dom \o CandidatePaths[k] \o user
                     /\ k = 6 => guessLog[k].kind = "webfinger"
                     /\ k < Len(guessLog) => guessLog[k].ans # "json"
                /\ guessPc = "webfinger" => Len(guessLog) = 5
                /\ guessPc = "candidates" => Len(guessLog) < 5
                /\ (guessPc = "done" /\ HasPrefix(seg, <<"@">>)) =>
                     \/ /\ Len(guessLog) <= 5
                        /\ guessLog[Len(guessLog)].ans = "json"
                        /\ guessOut = [actorURL |-> guessLog[Len(guessLog)].url, err |-> NoErr]
                     \/ /\ Len(guessLog) = 6
                        /\ \A k \in 1..5 : guessLog[k].ans # "json"

\* for a handle of another instance all five candidates failed, one of them
\* with a null body, and WebFinger gave the actor URL
C38_Witness ==
    /\ guessPc = "done"
    /\ Count(guessURL, "@") = 2
    /\ Len(guessLog) = 6
    /\ guessLog[3].ans = "null"
    /\ guessOut.err = NoErr
    /\ guessOut.actorURL = UrlActor

(***************************************************************************)
(* checkForRedirect: the URL a chain of redirects leads to                 *)
(***************************************************************************)
\* the loop makes at most this many requests
MaxRedirects == 10

RedirInputs == {UrlX, UrlActor, UrlNode, <<"b", "/", "x">>}

\* the Location headers sent: none, one that starts with '/', absolute ones,
\* and a relative one that does not start with '/'
RedirLocations == {<<>>, RelativeRef, UrlX, UrlActor, <<"r">>}

\* statuses that are not followed
FinalStatuses == {200, 303, 404}

InitRedir == InitWith({UrlX})

redirReturns(u, e) ==
    /\ redirPc' = "done"
    /\ redirOut' = [url |-> u, err |-> e]

\* after the loop: the URL reached is returned when it is not the input
redirFinished(currentURL) ==
    redirReturns(IF currentURL # redirInput THEN currentURL ELSE <<>>, NoErr)

\* the end of a turn that followed a redirect: the loop goes on while i < 10
redirContinues(currentURL, i) ==
    /\ redirURL' = currentURL
    /\ IF i < MaxRedirects
       THEN UNCHANGED <<redirPc, redirOut>>
       ELSE redirFinished(currentURL)

\* the Location of a followed redirect, resolved against the current URL when
\* it starts with '/'
redirTarget(currentURL, location) ==
    IF location[1] = "/" THEN ResolveReference(currentURL, location) ELSE location

CheckForRedirect ==
    /\ redirPc = "idle"
    /\ \E u \in RedirInputs :
         /\ redirInput' = u
         /\ redirURL' = u
    /\ redirCount' = 0
    /\ redirPc' = "request"
    /\ UNCHANGED redirOut
    /\ UNCHANGED exceptRedir

\* one turn of the loop: a GET of the current URL by a client that follows no
\* redirect and has no timeout
RedirRequest ==
    /\ redirPc = "request"
    /\ redirCount' = redirCount + 1
    /\ UNCHANGED redirInput
    /\ UNCHANGED exceptRedir
    /\ \/ /\ redirReturns(<<>>, Err("Transport", 0))
          /\ UNCHANGED redirURL
       \/ /\ CanSend(redirURL)
          /\ \/ /\ redirPc' = "blocked"
                /\ UNCHANGED <<redirURL, redirOut>>
             \/ \E st \in FinalStatuses, location \in RedirLocations :
                  /\ redirFinished(redirURL)
                  /\ UNCHANGED redirURL
             \/ \E st \in RedirectStatuses, location \in RedirLocations :
                  IF location = <<>>
                  THEN redirFinished(redirURL) /\ UNCHANGED redirURL
                  ELSE redirContinues(redirTarget(redirURL, location), redirCount + 1)

NextRedir ==
    \/ CheckForRedirect
    \/ RedirRequest

SpecRedir == InitRedir /\ [][NextRedir]_vars

\* a request that is answered, refused or hangs does so eventually
SpecRedirFair == SpecRedir /\ WF_redirVars(RedirRequest)

\* C39 as stated: a call of checkForRedirect always returns.
C39_Original == (redirPc = "request") ~> (redirPc = "done")

====
